---- MODULE Spec2Model ----
(***************************************************************************)
(* Model of agentic-pdf-reconstructor: the reconstruction graph            *)
(* (src/graph/index.ts) and the video analyzer:                            *)
(*   src/video-analyzer/frameExtractor.ts (extractFrames, and after it     *)
(*   loadCache, saveCache and analyzeVideo), ocr.ts (ocrFrame,             *)
(*   ocrAllFrames), tfidf.ts, clustering.ts, representativeSelection.ts.   *)
(*                                                                         *)
(* One video is analyzed, run after run, with the same clustering options; *)
(* the worker count and the presence of tesseract are chosen per run.      *)
(* tesseract prints what the frame shows or fails; ffmpeg emits the frames *)
(* of the video or fails, and a failing ffmpeg writes no frame file.       *)
(*                                                                         *)
(* Six specifications: Spec (runs of analyzeVideo from an empty cache with  *)
(* one worker or more), AnyWorkersSpec (the same runs with any worker      *)
(* count the upload route passes, none included), WarmSpec (the stages     *)
(* after a cache hit, over records of chosen texts), GraphSpec (one run of *)
(* the reconstruction graph, every model call and tool call returning),    *)
(* CacheSpec (the saveCache calls of two runs on one video, ocr_cache.json *)
(* being written piece by piece) and JobSpec (the job store under the      *)
(* upload and result routes, job.json being opened and then written).      *)
(*                                                                         *)
(* Numbers the code computes in floating point are computed here in fixed  *)
(* point with three decimals (1000 stands for 1.0).  A text is a sequence  *)
(* of pieces: a word (a run of letters and digits), " " (a run of white    *)
(* space) or "!" (a run of other characters); two neighbouring words are   *)
(* separated by white space.  A frame path is the record of its directory  *)
(* and its zero-padded sequence number.                                    *)
(***************************************************************************)
EXTENDS Integers, Sequences, FiniteSets, TLC

----------------------------------------------------------------------------
(* Bounds of the model *)

\* the largest number of frames the decoder emits for a video
MaxFrames == 3
\* the largest worker count a caller passes
MaxWorkers == 2
\* the largest nClusters a caller passes
MaxClusters == 2

----------------------------------------------------------------------------
(* Sequence helpers *)

Range(s) == {s[i] : i \in DOMAIN s}

Min2(a, b) == IF a <= b THEN a ELSE b

Max2(a, b) == IF a >= b THEN a ELSE b

RECURSIVE SumSeq(_)
SumSeq(s) == IF s = <<>> THEN 0 ELSE Head(s) + SumSeq(Tail(s))

\* the members of a finite set of integers in increasing order
RECURSIVE Ascending(_)
Ascending(S) ==
  IF S = {} THEN <<>>
  ELSE LET m == CHOOSE x \in S : \A y \in S : x <= y
       IN <<m>> \o Ascending(S \ {m})

\* s without repeats, each value at the place of its first occurrence
RECURSIVE Distinct(_)
Distinct(s) ==
  IF s = <<>> THEN <<>>
  ELSE LET r == Distinct(SubSeq(s, 1, Len(s) - 1))
           x == s[Len(s)]
       IN IF x \in Range(r) THEN r ELSE Append(r, x)

RECURSIVE Flatten(_)
Flatten(ss) == IF ss = <<>> THEN <<>> ELSE Head(ss) \o Flatten(Tail(ss))

Count(s, x) == Cardinality({i \in DOMAIN s : s[i] = x})

\* floor of the square root of x >= 0
RECURSIVE IsqrtIter(_, _, _)
IsqrtIter(x, lo, hi) ==
  IF lo >= hi THEN lo
  ELSE LET mid == (lo + hi + 1) \div 2
       IN IF mid * mid <= x THEN IsqrtIter(x, mid, hi)
          ELSE IsqrtIter(x, lo, mid - 1)

Isqrt(x) == IsqrtIter(x, 0, Min2(x, 46340))

\* one in fixed point
One == 10 * 10 * 10

\* 1000 * ln(n), rounded, for n = 1..8
LnTable == <<0, 693, 1099, 1386, 1609, 1792, 1946, 2079>>

Ln(n) == LnTable[n]

----------------------------------------------------------------------------
(* tfidf.ts *)

\* the stop words among the words of the texts below
STOP_WORDS == {"the", "of", "and", "is", "a"}

\* String.prototype.toLowerCase on a piece
ToLowerCase(w) ==
  CASE w = "Invoice" -> "invoice"
    [] w = "The" -> "the"
    [] OTHER -> w

\* String.prototype.trim().length > 0: some piece is not white space
HasText(text) == \E i \in DOMAIN text : text[i] # " "

\* replace(/[^a-z0-9\s]/g, " "): a run of other characters becomes white space
ReplaceNonAlnum(w) == IF w = "!" THEN " " ELSE w

IsWord(w) == w # " " /\ w \notin STOP_WORDS

\* a term is the sequence of its words: <<w>> a unigram, <<w1, w2>> a bigram
Tokenize(text) ==
  LET lowered == [i \in DOMAIN text |-> ReplaceNonAlnum(ToLowerCase(text[i]))]
      keep == Ascending({i \in DOMAIN lowered : IsWord(lowered[i])})
      words == [i \in DOMAIN keep |-> lowered[keep[i]]]
  IN [i \in DOMAIN words |-> <<words[i]>>]
     \o [i \in 1..(Len(words) - 1) |-> <<words[i], words[i + 1]>>]

NonEmptyIndices(texts) == Ascending({i \in DOMAIN texts : HasText(texts[i])})

\* document frequency of a term over the tokenized documents
DfCount(docs, term) == Cardinality({d \in DOMAIN docs : term \in Range(docs[d])})

\* the keys of dfCounts in insertion order
ObservedTerms(docs) == Distinct(Flatten(docs))

\* MaxDf rounded up: Math.ceil(nDocs * 0.95)
MaxDfCeil(nDocs) == (nDocs * 95 + 99) \div 100

\* Math.floor(nDocs * 0.95)
MaxDf(nDocs) == (nDocs * 95) \div 100

Vocabulary(docs) ==
  LET nDocs == Len(docs)
      terms == ObservedTerms(docs)
      Kept(term) == DfCount(docs, term) >= 1
                    /\ (nDocs <= 1 \/ DfCount(docs, term) <= MaxDf(nDocs))
      kept == Ascending({i \in DOMAIN terms : Kept(terms[i])})
  IN IF kept = <<>> THEN terms ELSE [i \in DOMAIN kept |-> terms[kept[i]]]

\* (1 + ln count) * (ln((1 + nDocs) / (1 + df)) + 1)
Weight(count, nDocs, df) ==
  ((One + Ln(count)) * (Ln(1 + nDocs) - Ln(1 + df) + One)) \div One

SquaredNorm(row) == SumSeq([j \in DOMAIN row |-> row[j] * row[j]])

\* L2Normalize without the division: the row is left as computed
L2NormalizeSkipped(row) == row

L2Normalize(row) ==
  LET norm == Isqrt(SquaredNorm(row))
  IN IF norm > 0 THEN [j \in DOMAIN row |-> (row[j] * One) \div norm] ELSE row

TfidfRow(tokens, docs, vocabulary) ==
  L2Normalize([j \in DOMAIN vocabulary |->
    LET count == Count(tokens, vocabulary[j])
    IN IF count = 0 THEN 0
       ELSE Weight(count, Len(docs), DfCount(docs, vocabulary[j]))])

buildTfidfMatrix(texts) ==
  LET nonEmptyIndices == NonEmptyIndices(texts)
      docs == [i \in DOMAIN nonEmptyIndices |-> Tokenize(texts[nonEmptyIndices[i]])]
      vocabulary == Vocabulary(docs)
  IN IF nonEmptyIndices = <<>>
     THEN [matrix |-> <<>>, vocabulary |-> <<>>, originalIndices |-> <<>>]
     ELSE [matrix |-> [i \in DOMAIN docs |-> TfidfRow(docs[i], docs, vocabulary)],
           vocabulary |-> vocabulary,
           originalIndices |-> nonEmptyIndices]

Dot(a, b) == SumSeq([i \in DOMAIN a |-> a[i] * b[i]])

cosineSimilarity(a, b) ==
  LET denom == Isqrt(SquaredNorm(a)) * Isqrt(SquaredNorm(b))
  IN IF denom = 0 THEN 0 ELSE (Dot(a, b) * One) \div denom

cosineDistance(a, b) == One - cosineSimilarity(a, b)

----------------------------------------------------------------------------
(* clustering.ts *)

\* an optional argument: None when the caller leaves it out, Some(v) otherwise
None == <<>>

Some(v) == <<v>>

\* maxIterations of the kmeans call
MaxIterations == 100
\* seed of the kmeans call
KMeansSeed == 42
\* default minSamples of clusterDBSCAN
MinSamples == 2

SquaredEuclidean(a, b) == SumSeq([j \in DOMAIN a |-> (a[j] - b[j]) * (a[j] - b[j])])

\* the least index of centers nearest to the point
NearestCenter(point, centers) ==
  CHOOSE c \in DOMAIN centers :
    \A d \in DOMAIN centers :
      \/ SquaredEuclidean(point, centers[c]) < SquaredEuclidean(point, centers[d])
      \/ SquaredEuclidean(point, centers[c]) = SquaredEuclidean(point, centers[d]) /\ c <= d

ClosestDist(point, centers) == SquaredEuclidean(point, centers[NearestCenter(point, centers)])

\* kmeans++ seeding under the fixed seed: the seed fixes the first row drawn; each
\* further center is the row farthest from the centers drawn so far
RECURSIVE SeedCenters(_, _, _)
SeedCenters(data, K, centers) ==
  IF Len(centers) >= K THEN centers
  ELSE LET far == CHOOSE i \in DOMAIN data :
                    \A k \in DOMAIN data :
                      \/ ClosestDist(data[i], centers) > ClosestDist(data[k], centers)
                      \/ ClosestDist(data[i], centers) = ClosestDist(data[k], centers) /\ i <= k
       IN SeedCenters(data, K, Append(centers, data[far]))

UpdateClusterID(data, centers) == [i \in DOMAIN data |-> NearestCenter(data[i], centers)]

UpdateCenters(centers, data, clusterID) ==
  [c \in DOMAIN centers |->
    LET members == {i \in DOMAIN data : clusterID[i] = c}
    IN IF members = {} THEN centers[c]
       ELSE [j \in DOMAIN centers[c] |->
              SumSeq([i \in DOMAIN data |-> IF i \in members THEN data[i][j] ELSE 0])
                \div Cardinality(members)]]

RECURSIVE KMeansStep(_, _, _)
KMeansStep(data, centers, stepNumber) ==
  LET clusterID == UpdateClusterID(data, centers)
      newCenters == UpdateCenters(centers, data, clusterID)
  IN IF newCenters = centers \/ stepNumber >= MaxIterations THEN clusterID
     ELSE KMeansStep(data, newCenters, stepNumber + 1)

\* kmeans returning the cluster numbers counted from 1
kmeansFromOne(data, K) ==
  LET first == data[(KMeansSeed % Len(data)) + 1]
  IN KMeansStep(data, SeedCenters(data, K, <<first>>), 1)

\* ml-kmeans: kmeans(data, K, {initialization: "kmeans++", maxIterations, seed}).clusters
kmeans(data, K) ==
  LET first == data[(KMeansSeed % Len(data)) + 1]
      clusterID == KMeansStep(data, SeedCenters(data, K, <<first>>), 1)
  IN [i \in DOMAIN data |-> clusterID[i] - 1]

clusterKMeans(tfidfMatrix, nClusters) ==
  LET effectiveClusters == Min2(nClusters, Len(tfidfMatrix))
  IN IF Len(tfidfMatrix) = 0 THEN <<>>
     ELSE IF effectiveClusters <= 1 THEN [i \in DOMAIN tfidfMatrix |-> 0]
     ELSE kmeans(tfidfMatrix, effectiveClusters)

\* density-clustering: DBSCAN.prototype._regionQuery
RegionQuery(dataset, epsilon, pointId) ==
  Ascending({id \in DOMAIN dataset : cosineDistance(dataset[pointId], dataset[id]) < epsilon})

\* density-clustering: DBSCAN.prototype._mergeArrays
MergeArrays(a, b) ==
  LET fresh == Ascending({i \in DOMAIN b : b[i] \notin Range(a)})
  IN a \o [i \in DOMAIN fresh |-> b[fresh[i]]]

\* density-clustering: DBSCAN.prototype._expandCluster; st holds clusters, visited, assigned
RECURSIVE ExpandCluster(_, _, _, _, _, _, _)
ExpandCluster(dataset, epsilon, minPts, st, clusterId, neighbors, i) ==
  IF i > Len(neighbors) THEN st
  ELSE LET pointId2 == neighbors[i]
           fresh == pointId2 \notin st.visited
           neighbors2 == RegionQuery(dataset, epsilon, pointId2)
           grown == IF fresh /\ Len(neighbors2) >= minPts
                    THEN MergeArrays(neighbors, neighbors2) ELSE neighbors
           st2 == [st EXCEPT !.visited = @ \cup {pointId2},
                             !.assigned = @ \cup {pointId2},
                             !.clusters[clusterId] =
                                IF pointId2 \in st.assigned THEN @ ELSE Append(@, pointId2)]
       IN ExpandCluster(dataset, epsilon, minPts, st2, clusterId, grown, i + 1)

\* density-clustering: DBSCAN.prototype.run, the loop from pointId on
RECURSIVE DbscanRun(_, _, _, _, _)
DbscanRun(dataset, epsilon, minPts, st, pointId) ==
  IF pointId > Len(dataset) THEN st
  ELSE IF pointId \in st.visited THEN DbscanRun(dataset, epsilon, minPts, st, pointId + 1)
  ELSE LET neighbors == RegionQuery(dataset, epsilon, pointId)
           seen == [st EXCEPT !.visited = @ \cup {pointId}]
       IN IF Len(neighbors) < minPts
          THEN DbscanRun(dataset, epsilon, minPts,
                         [seen EXCEPT !.noise = Append(@, pointId)], pointId + 1)
          ELSE LET clusterId == Len(st.clusters) + 1
                   opened == [seen EXCEPT !.clusters = Append(@, <<pointId>>),
                                          !.assigned = @ \cup {pointId}]
               IN DbscanRun(dataset, epsilon, minPts,
                            ExpandCluster(dataset, epsilon, minPts, opened, clusterId,
                                          neighbors, 1),
                            pointId + 1)

\* ClusterLabels with the label array filled with 0 rather than -1
ClusterLabelsFilledWithZero(n, clusters) ==
  [p \in 1..n |->
     IF \E c \in DOMAIN clusters : p \in Range(clusters[c])
     THEN (CHOOSE c \in DOMAIN clusters :
             /\ p \in Range(clusters[c])
             /\ \A d \in DOMAIN clusters : p \in Range(clusters[d]) => d <= c) - 1
     ELSE 0]

\* labels of the rows: the index (from 0) of the cluster holding the row, else -1
ClusterLabels(n, clusters) ==
  [p \in 1..n |->
     IF \E c \in DOMAIN clusters : p \in Range(clusters[c])
     THEN (CHOOSE c \in DOMAIN clusters :
             /\ p \in Range(clusters[c])
             /\ \A d \in DOMAIN clusters : p \in Range(clusters[d]) => d <= c) - 1
     ELSE -1]

clusterDBSCAN(tfidfMatrix, eps) ==
  IF Len(tfidfMatrix) = 0 THEN <<>>
  ELSE IF Len(tfidfMatrix) < MinSamples THEN [i \in DOMAIN tfidfMatrix |-> 0]
  ELSE ClusterLabels(Len(tfidfMatrix),
         DbscanRun(tfidfMatrix, eps, MinSamples,
                   [clusters |-> <<>>, noise |-> <<>>, visited |-> {}, assigned |-> {}],
                   1).clusters)

----------------------------------------------------------------------------
(* representativeSelection.ts *)

Centroid(matrix) ==
  [j \in DOMAIN matrix[1] |->
     SumSeq([i \in DOMAIN matrix |-> matrix[i][j]]) \div Len(matrix)]

\* BestIdx with sim >= bestSimilarity: the last row of greatest similarity
BestIdxLast(matrix) ==
  LET centroid == Centroid(matrix)
  IN CHOOSE i \in DOMAIN matrix :
       /\ \A k \in DOMAIN matrix :
            cosineSimilarity(matrix[k], centroid) <= cosineSimilarity(matrix[i], centroid)
       /\ \A k \in (i + 1)..Len(matrix) :
            cosineSimilarity(matrix[k], centroid) < cosineSimilarity(matrix[i], centroid)

\* the first row whose similarity to the centroid no other row exceeds
BestIdx(matrix) ==
  LET centroid == Centroid(matrix)
  IN CHOOSE i \in DOMAIN matrix :
       /\ \A k \in DOMAIN matrix :
            cosineSimilarity(matrix[k], centroid) <= cosineSimilarity(matrix[i], centroid)
       /\ \A k \in 1..(i - 1) :
            cosineSimilarity(matrix[k], centroid) < cosineSimilarity(matrix[i], centroid)

\* selectRepresentative without the branch for a single text that is not empty
selectRepresentativeFirstOfFew(groupFramePaths, groupTexts) ==
  LET tfidf == buildTfidfMatrix(groupTexts)
  IN IF Len(groupFramePaths) = 1 THEN groupFramePaths[1]
     ELSE IF Len(tfidf.matrix) <= 1 THEN groupFramePaths[1]
     ELSE groupFramePaths[tfidf.originalIndices[BestIdx(tfidf.matrix)]]

\* groupFramePaths is not empty: analyzeVideo never passes an empty group
selectRepresentative(groupFramePaths, groupTexts) ==
  LET tfidf == buildTfidfMatrix(groupTexts)
  IN IF Len(groupFramePaths) = 1 THEN groupFramePaths[1]
     ELSE IF Len(tfidf.matrix) = 0 THEN groupFramePaths[1]
     ELSE IF Len(tfidf.matrix) = 1 THEN groupFramePaths[tfidf.originalIndices[1]]
     ELSE groupFramePaths[tfidf.originalIndices[BestIdx(tfidf.matrix)]]

----------------------------------------------------------------------------
(* The video, the tools and the files on disk *)

TxtInvoice == <<"invoice", "total", "42">>

TxtInvoiceDue == <<"Invoice", "total", "!", "due">>

TxtHello == <<"hello", "world">>

TxtStopOnly == <<"The", "of", "!">>

TxtBlank == <<" ">>

TxtEmpty == <<>>

\* what the frames of a video show, by the kind of video; the pattern repeats
FramePattern(kind) ==
  CASE kind = "static" -> <<TxtInvoice>>
    [] kind = "slides" -> <<TxtInvoice, TxtInvoiceDue, TxtHello, TxtHello>>
    [] kind = "sparse" -> <<TxtBlank, TxtInvoice, TxtStopOnly, TxtInvoice>>

VideoKinds == {"static", "slides", "sparse"}

\* radii a caller passes as dbscanEps
EpsValues == {300, 700}

\* frame_%06d.jpg in the frames directory of the cache directory
FramePath(n) == [dir |-> "frames", num |-> n]

getFrameNumber(framePath) == framePath.num

\* Sampling rate used during frame extraction
SAMPLE_FPS == 15

\* frameNumberToTimestamp with one frame per second
frameNumberToTimestampPerSecond(frameNum) ==
  LET totalSeconds == Max2(0, frameNum - 1)
      hours == totalSeconds \div 3600
      minutes == (totalSeconds % 3600) \div 60
      tenths == 10 * (totalSeconds % 60)
  IN IF hours > 0 THEN <<hours, minutes, tenths>> ELSE <<minutes, tenths>>

\* the timestamp string as the sequence of its fields: <<MM, SS.s>> or <<HH, MM, SS.s>>,
\* the seconds in tenths as toFixed(1) rounds them; time is counted in frames of
\* 1 / SAMPLE_FPS seconds
frameNumberToTimestamp(frameNum) ==
  LET ticks == Max2(0, frameNum - 1)
      hours == ticks \div (3600 * SAMPLE_FPS)
      minutes == (ticks % (3600 * SAMPLE_FPS)) \div (60 * SAMPLE_FPS)
      secTicks == ticks % (60 * SAMPLE_FPS)
      tenths == (20 * secTicks + SAMPLE_FPS) \div (2 * SAMPLE_FPS)
  IN IF hours > 0 THEN <<hours, minutes, tenths>> ELSE <<minutes, tenths>>

NoRecord == [frames |-> <<>>, texts |-> <<>>, present |-> FALSE]

EmptyMap == [x \in {} |-> <<>>]

MapSet(m, k, v) == [x \in DOMAIN m \cup {k} |-> IF x = k THEN v ELSE m[x]]

\* results.get(f) ?? ""
MapGet(m, k) == IF k \in DOMAIN m THEN m[k] ELSE TxtEmpty

NoFrame == [dir |-> "none", num |-> 0]

NoOutcome == [status |-> "none"]

VARIABLES
  videoFrames,   \* how many frames the decoder emits for the video
  videoKind,     \* what the frames of the video show
  dbscanEps,     \* options.dbscanEps
  nClusters,     \* options.nClusters
  workers,       \* options.workers of the run
  tesseract,     \* whether the tesseract binary is installed during the run
  cacheFile,     \* ocr_cache.json of the video's hash, cell by cell
  frameFiles,    \* the frame files in the frames directory of the video's hash
  pc,            \* the stage analyzeVideo is at
  cached,        \* what loadCache returned
  frames, texts, \* the locals of analyzeVideo
  queue, results, completed, inFlight, workerDone,   \* the locals of ocrAllFrames
  tfidf, labels, \* the TF-IDF result and the label of every frame
  outcome,       \* what the last finished run returned or threw
  lastResult,    \* what the run before it returned or threw
  calls,         \* how often the run called each stage, and how often ffmpeg failed
  ocrCalls,      \* how often the run passed each frame to tesseract
  ocrExit,       \* how each tesseract invocation of the run ended
  saving,        \* the calls of saveCache that write ocr_cache.json side by side
  maxIterations, \* the option of buildGraph
  graphNode,     \* the node of the reconstruction graph that runs next
  messages, iterationCount, isDone,   \* GraphState
  agentRuns,     \* how often agentNode was executed
  toolRuns,      \* the tool calls toolsNode executed
  jobFile,       \* job.json of every job
  jobPc,         \* where the upload route and the background run of every job are
  jobResult,     \* how the background run of every job ended
  answer         \* what the result route answered last for every job

config == <<videoFrames, videoKind, dbscanEps, nClusters>>

disk == <<cacheFile, frameFiles>>

pool == <<queue, results, completed, inFlight, workerDone>>

\* the state of the reconstruction graph
graph == <<maxIterations, graphNode, messages, iterationCount, isDone, agentRuns, toolRuns>>

\* the state of the video analyzer
analyzer == <<videoFrames, videoKind, dbscanEps, nClusters, workers, tesseract, cacheFile,
              frameFiles, pc, cached, frames, texts, queue, results, completed, inFlight,
              workerDone, tfidf, labels, outcome, lastResult, calls, ocrCalls, ocrExit>>

\* the state of the job store and of the routes
server == <<jobFile, jobPc, jobResult, answer>>

\* what a run of the video analyzer leaves alone
apart == <<saving, graph, server>>

vars == <<analyzer, saving, graph, server>>

\* a cell of ocr_cache.json: a bracket, a path, a piece of a text or the end of a text
Cell(kind, value) == [kind |-> kind, value |-> value]

\* the texts as JSON.stringify writes them: every text piece by piece, then its end
RECURSIVE StringifyTexts(_)
StringifyTexts(frameTexts) ==
  IF frameTexts = <<>> THEN <<>>
  ELSE [i \in DOMAIN Head(frameTexts) |-> Cell("piece", Head(frameTexts)[i])]
         \o <<Cell("endtext", <<>>)>>
         \o StringifyTexts(Tail(frameTexts))

\* JSON.stringify(cached), cell by cell
Stringify(record) ==
  <<Cell("open", <<>>)>>
    \o [i \in DOMAIN record.frames |-> Cell("path", record.frames[i])]
    \o <<Cell("between", <<>>)>>
    \o StringifyTexts(record.texts)
    \o <<Cell("close", <<>>)>>

\* the place of the cell between the two lists, 0 when there is not exactly one
PlaceBetween(file) ==
  LET places == {i \in DOMAIN file : file[i].kind = "between"}
  IN IF Cardinality(places) = 1 THEN CHOOSE i \in places : TRUE ELSE 0

\* JSON.parse(raw) does not throw
Parses(file) ==
  /\ Len(file) >= 3
  /\ file[1].kind = "open"
  /\ file[Len(file)].kind = "close"
  /\ PlaceBetween(file) > 0
  /\ \A i \in 2..(PlaceBetween(file) - 1) : file[i].kind = "path"
  /\ \A i \in (PlaceBetween(file) + 1)..(Len(file) - 1) :
       file[i].kind \in {"piece", "endtext"}
  /\ PlaceBetween(file) < Len(file) - 1 => file[Len(file) - 1].kind = "endtext"

\* the texts JSON.parse reads from the cells of the second list
RECURSIVE ParseTexts(_, _)
ParseTexts(cells, pieces) ==
  IF cells = <<>> THEN <<>>
  ELSE IF Head(cells).kind = "endtext"
       THEN <<pieces>> \o ParseTexts(Tail(cells), <<>>)
       ELSE ParseTexts(Tail(cells), Append(pieces, Head(cells).value))

\* stat(ocrCachePath), readFile and JSON.parse; NoRecord when one of them throws
ReadRecord(file) ==
  IF ~Parses(file) THEN NoRecord
  ELSE [frames |-> [i \in 1..(PlaceBetween(file) - 2) |-> file[i + 1].value],
        texts |-> ParseTexts(SubSeq(file, PlaceBetween(file) + 1, Len(file) - 1), <<>>),
        present |-> TRUE]

\* no file, or a file of no bytes
NoFile == <<>>

\* the record in ocr_cache.json
cacheRecord == ReadRecord(cacheFile)

\* the runs that may write the cache of one video at the same time
Runs == {"first", "second"}

NotSaving == [record |-> NoRecord, written |-> 0, state |-> "no"]

\* default of the maxIterations option of buildGraph
DEFAULT_MAX_ITERATIONS == 10

\* no graph is invoked
GraphIdle ==
  /\ maxIterations = DEFAULT_MAX_ITERATIONS
  /\ graphNode = "none"
  /\ messages = <<>>
  /\ iterationCount = 0
  /\ isDone = FALSE
  /\ agentRuns = 0
  /\ toolRuns = <<>>

\* no saveCache is under way
SavingIdle == saving = [r \in Runs |-> NotSaving]

\* the upload routes: one job of each is followed
JobIds == {"pdf-reconstruction", "video-analyzer"}

\* job.json: missing, opened for writing and still empty, or holding a job
NoJobFile == [kind |-> "missing", status |-> "", error |-> ""]

EmptyJobFile == [kind |-> "empty", status |-> "", error |-> ""]

JobJson(status, error) == [kind |-> "json", status |-> status, error |-> error]

\* no upload has arrived
ServerIdle ==
  /\ jobFile = [id \in JobIds |-> NoJobFile]
  /\ jobPc = [id \in JobIds |-> "none"]
  /\ jobResult = [id \in JobIds |-> "none"]
  /\ answer = [id \in JobIds |-> "none"]

Workers == 1..MaxWorkers

\* no clustering function called
NoClusterCall == [fn |-> "none", arg |-> 0]

NoCalls == [extract |-> 0, ffmpegFailed |-> 0, ocr |-> 0, save |-> 0, tfidf |-> 0,
            cluster |-> 0, clusterCall |-> NoClusterCall, select |-> 0]

NoTfidf == [matrix |-> <<>>, vocabulary |-> <<>>, originalIndices |-> <<>>]

\* what a frame shows
FrameContent(framePath) ==
  LET pattern == FramePattern(videoKind)
  IN pattern[((framePath.num - 1) % Len(pattern)) + 1]

Init ==
  /\ SavingIdle
  /\ ServerIdle
  /\ GraphIdle
  /\ videoFrames \in 0..MaxFrames
  /\ videoKind \in VideoKinds
  /\ dbscanEps \in {None} \cup {Some(e) : e \in EpsValues}
  /\ nClusters \in {None} \cup {Some(k) : k \in 0..MaxClusters}
  /\ workers = 1
  /\ tesseract = TRUE
  /\ cacheFile = NoFile
  /\ frameFiles = {}
  /\ pc = "idle"
  /\ cached = NoRecord
  /\ frames = <<>>
  /\ texts = <<>>
  /\ queue = <<>>
  /\ results = EmptyMap
  /\ completed = 0
  /\ inFlight = [w \in Workers |-> NoFrame]
  /\ workerDone = [w \in Workers |-> TRUE]
  /\ tfidf = NoTfidf
  /\ labels = <<>>
  /\ outcome = NoOutcome
  /\ lastResult = NoOutcome
  /\ calls = NoCalls
  /\ ocrCalls = EmptyMap
  /\ ocrExit = EmptyMap

----------------------------------------------------------------------------
(* frameExtractor.ts: the cache *)

\* stat(framePath) succeeds
FileExists(framePath) == framePath \in frameFiles

\* loadCache without the check that the frame files exist
loadCacheUnverified(record) == IF ~record.present THEN NoRecord ELSE record

loadCache(record) ==
  IF ~record.present THEN NoRecord
  ELSE IF \E i \in DOMAIN record.frames : ~FileExists(record.frames[i]) THEN NoRecord
  ELSE record

\* saveCache writing the texts in the opposite order
saveCacheMisaligned(framePaths, frameTexts) ==
  [frames |-> framePaths,
   texts |-> [i \in DOMAIN frameTexts |-> frameTexts[Len(frameTexts) + 1 - i]],
   present |-> TRUE]

saveCache(framePaths, frameTexts) ==
  [frames |-> framePaths, texts |-> frameTexts, present |-> TRUE]

\* the locals of a run as they are when no run is under way
RunLocalsCleared ==
  /\ cached' = NoRecord
  /\ frames' = <<>>
  /\ texts' = <<>>
  /\ queue' = <<>>
  /\ results' = EmptyMap
  /\ completed' = 0
  /\ inFlight' = [w \in Workers |-> NoFrame]
  /\ workerDone' = [w \in Workers |-> TRUE]
  /\ tfidf' = NoTfidf
  /\ labels' = <<>>

\* analyzeVideo is called: options read, output directory made, frame rate probed
StartRun(w, installed) ==
  /\ pc = "idle"
  /\ pc' = "hash"
  /\ workers' = w
  /\ tesseract' = installed
  /\ outcome' = NoOutcome
  /\ lastResult' = outcome
  /\ calls' = NoCalls
  /\ ocrCalls' = EmptyMap
  /\ ocrExit' = EmptyMap
  /\ RunLocalsCleared
  /\ UNCHANGED <<apart, config, disk>>

\* hashFile
HashVideo ==
  /\ pc = "hash"
  /\ pc' = "lookup"
  /\ UNCHANGED <<apart, config, disk, workers, tesseract, cached, frames, texts, pool, tfidf,
                 labels, outcome, lastResult, calls, ocrCalls, ocrExit>>

\* LookupCache with the extraction run on a hit as well
LookupCacheThenExtract ==
  /\ pc = "lookup"
  /\ cached' = loadCache(cacheRecord)
  /\ IF cached'.present
     THEN /\ frames' = cached'.frames
          /\ texts' = cached'.texts
     ELSE UNCHANGED <<frames, texts>>
  /\ pc' = "extract"
  /\ UNCHANGED <<apart, config, disk, workers, tesseract, pool, tfidf, labels, outcome,
                 lastResult, calls, ocrCalls, ocrExit>>

\* const cached = await loadCache(videoHash), and the branch on it
LookupCache ==
  /\ pc = "lookup"
  /\ cached' = loadCache(cacheRecord)
  /\ IF cached'.present
     THEN /\ frames' = cached'.frames
          /\ texts' = cached'.texts
          /\ pc' = "tfidf"
     ELSE /\ pc' = "extract"
          /\ UNCHANGED <<frames, texts>>
  /\ UNCHANGED <<apart, config, disk, workers, tesseract, pool, tfidf, labels, outcome,
                 lastResult, calls, ocrCalls, ocrExit>>

EmptyResult == [status |-> "ok", totalFrames |-> 0, groups |-> <<>>,
                representativeFramePaths |-> <<>>]

\* ExtractFrames without the return on zero frames
ExtractFramesWithoutShortCircuit ==
  /\ pc = "extract"
  /\ calls' = [calls EXCEPT !.extract = @ + 1]
  /\ frameFiles' = frameFiles \cup {FramePath(n) : n \in 1..videoFrames}
  /\ LET listing == Ascending({f.num : f \in frameFiles'})
     IN frames' = [i \in DOMAIN listing |-> FramePath(listing[i])]
  /\ pc' = "ocr"
  /\ UNCHANGED <<apart, config, cacheFile, workers, tesseract, cached, texts, pool, tfidf,
                 labels, outcome, lastResult, ocrCalls, ocrExit>>

\* extractFrames: ffmpeg exits with 0; the frame files are listed in sorted order
ExtractFrames ==
  /\ pc = "extract"
  /\ calls' = [calls EXCEPT !.extract = @ + 1]
  /\ frameFiles' = frameFiles \cup {FramePath(n) : n \in 1..videoFrames}
  /\ LET listing == Ascending({f.num : f \in frameFiles'})
     IN frames' = [i \in DOMAIN listing |-> FramePath(listing[i])]
  /\ IF Len(frames') = 0
     THEN /\ outcome' = EmptyResult
          /\ pc' = "idle"
     ELSE /\ pc' = "ocr"
          /\ UNCHANGED outcome
  /\ UNCHANGED <<apart, config, cacheFile, workers, tesseract, cached, texts, pool, tfidf,
                 labels, lastResult, ocrCalls, ocrExit>>

\* ExtractFramesFails with the rejection caught and the empty result returned
ExtractFramesFailsSilently ==
  /\ pc = "extract"
  /\ calls' = [calls EXCEPT !.extract = @ + 1, !.ffmpegFailed = @ + 1]
  /\ outcome' = EmptyResult
  /\ pc' = "idle"
  /\ UNCHANGED <<apart, config, disk, workers, tesseract, cached, frames, texts, pool, tfidf,
                 labels, lastResult, ocrCalls, ocrExit>>

\* extractFrames: ffmpeg exits with a non-zero code; execFileAsync rejects
ExtractFramesFails ==
  /\ pc = "extract"
  /\ calls' = [calls EXCEPT !.extract = @ + 1, !.ffmpegFailed = @ + 1]
  /\ outcome' = [status |-> "error", cause |-> "ffmpeg"]
  /\ pc' = "idle"
  /\ UNCHANGED <<apart, config, disk, workers, tesseract, cached, frames, texts, pool, tfidf,
                 labels, lastResult, ocrCalls, ocrExit>>

----------------------------------------------------------------------------
(* ocr.ts *)

CountOf(m, k) == IF k \in DOMAIN m THEN m[k] ELSE 0

\* Launched with one worker started whatever the worker count
LaunchedAtLeastOne(nWorkers, nFrames) == Max2(1, Min2(nWorkers, nFrames))

\* how many processNext workers ocrAllFrames launches
Launched(nWorkers, nFrames) == Min2(nWorkers, nFrames)

\* OcrLaunch with ocrAllFrames not awaited: the run goes on to saveCache while the
\* workers hold their first frames
OcrLaunchUnawaited ==
  /\ pc = "ocr"
  /\ pc' = "save"
  /\ LET n == Launched(workers, Len(frames))
     IN /\ queue' = SubSeq(frames, n + 1, Len(frames))
        /\ inFlight' = [w \in Workers |-> IF w <= n THEN frames[w] ELSE NoFrame]
        /\ workerDone' = [w \in Workers |-> w > n]
        /\ ocrCalls' = [f \in {frames[w] : w \in 1..n} |-> 1]
  /\ results' = EmptyMap
  /\ completed' = 0
  /\ texts' = [i \in DOMAIN frames |-> TxtEmpty]
  /\ calls' = [calls EXCEPT !.ocr = @ + 1]
  /\ UNCHANGED <<apart, config, disk, workers, tesseract, cached, frames, tfidf, labels,
                 outcome, lastResult, ocrExit>>

\* ocrAllFrames up to its await: every launched worker shifts one frame and starts tesseract
OcrLaunch ==
  /\ pc = "ocr"
  /\ pc' = "ocrwait"
  /\ LET n == Launched(workers, Len(frames))
     IN /\ queue' = SubSeq(frames, n + 1, Len(frames))
        /\ inFlight' = [w \in Workers |-> IF w <= n THEN frames[w] ELSE NoFrame]
        /\ workerDone' = [w \in Workers |-> w > n]
        /\ ocrCalls' = [f \in {frames[w] : w \in 1..n} |-> 1]
  /\ results' = EmptyMap
  /\ completed' = 0
  /\ calls' = [calls EXCEPT !.ocr = @ + 1]
  /\ UNCHANGED <<apart, config, disk, workers, tesseract, cached, frames, texts, tfidf, labels,
                 outcome, lastResult, ocrExit>>

\* ProcessNext taking the first frame of the queue but removing the last one
ProcessNextPopping(w, text, exit) ==
  /\ pc = "ocrwait"
  /\ inFlight[w] # NoFrame
  /\ results' = MapSet(results, inFlight[w], text)
  /\ completed' = completed + 1
  /\ ocrExit' = MapSet(ocrExit, inFlight[w], exit)
  /\ IF Len(queue) > 0
     THEN /\ inFlight' = [inFlight EXCEPT ![w] = Head(queue)]
          /\ queue' = SubSeq(queue, 1, Len(queue) - 1)
          /\ ocrCalls' = MapSet(ocrCalls, Head(queue), CountOf(ocrCalls, Head(queue)) + 1)
          /\ UNCHANGED workerDone
     ELSE /\ inFlight' = [inFlight EXCEPT ![w] = NoFrame]
          /\ workerDone' = [workerDone EXCEPT ![w] = TRUE]
          /\ UNCHANGED <<queue, ocrCalls>>
  /\ UNCHANGED <<apart, config, disk, workers, tesseract, pc, cached, frames, texts, tfidf,
                 labels, outcome, lastResult, calls>>

\* ProcessNext shifting the next frame without recording the text of the last one
ProcessNextUnrecorded(w, text, exit) ==
  /\ pc = "ocrwait"
  /\ inFlight[w] # NoFrame
  /\ completed' = completed + 1
  /\ IF Len(queue) > 0
     THEN /\ inFlight' = [inFlight EXCEPT ![w] = Head(queue)]
          /\ queue' = Tail(queue)
          /\ ocrCalls' = MapSet(ocrCalls, Head(queue), CountOf(ocrCalls, Head(queue)) + 1)
          /\ UNCHANGED <<workerDone, results, ocrExit>>
     ELSE /\ inFlight' = [inFlight EXCEPT ![w] = NoFrame]
          /\ workerDone' = [workerDone EXCEPT ![w] = TRUE]
          /\ results' = MapSet(results, inFlight[w], text)
          /\ ocrExit' = MapSet(ocrExit, inFlight[w], exit)
          /\ UNCHANGED <<queue, ocrCalls>>
  /\ UNCHANGED <<apart, config, disk, workers, tesseract, pc, cached, frames, texts, tfidf,
                 labels, outcome, lastResult, calls>>

\* processNext after ocrFrame returned text for the frame of worker w: the text is
\* recorded, and the worker shifts the next frame or, the queue being empty, ends
ProcessNext(w, text, exit) ==
  /\ pc = "ocrwait"
  /\ inFlight[w] # NoFrame
  /\ results' = MapSet(results, inFlight[w], text)
  /\ completed' = completed + 1
  /\ ocrExit' = MapSet(ocrExit, inFlight[w], exit)
  /\ IF Len(queue) > 0
     THEN /\ inFlight' = [inFlight EXCEPT ![w] = Head(queue)]
          /\ queue' = Tail(queue)
          /\ ocrCalls' = MapSet(ocrCalls, Head(queue), CountOf(ocrCalls, Head(queue)) + 1)
          /\ UNCHANGED workerDone
     ELSE /\ inFlight' = [inFlight EXCEPT ![w] = NoFrame]
          /\ workerDone' = [workerDone EXCEPT ![w] = TRUE]
          /\ UNCHANGED <<queue, ocrCalls>>
  /\ UNCHANGED <<apart, config, disk, workers, tesseract, pc, cached, frames, texts, tfidf,
                 labels, outcome, lastResult, calls>>

\* ocrFrame: tesseract exits with 0 and its standard output is the text
OcrFrameSucceeds(w) ==
  /\ tesseract
  /\ ProcessNext(w, FrameContent(inFlight[w]), "ok")

\* OcrFrameFails without the catch: the rejection ends the run
OcrFrameFailsUncaught(w) ==
  /\ pc = "ocrwait"
  /\ inFlight[w] # NoFrame
  /\ outcome' = [status |-> "error", cause |-> "tesseract"]
  /\ pc' = "idle"
  /\ UNCHANGED <<apart, config, disk, workers, tesseract, cached, frames, texts, pool, tfidf,
                 labels, lastResult, calls, ocrCalls, ocrExit>>

\* ocrFrame: execFileAsync rejects (tesseract exits with a non-zero code, or the binary
\* is not installed); the catch returns ""
OcrFrameFails(w) ==
  ProcessNext(w, TxtEmpty, IF tesseract THEN "failed" ELSE "missing")

\* await Promise.all(workerPromises) resolves; texts = frames.map(results.get ?? "")
OcrJoin ==
  /\ pc = "ocrwait"
  /\ \A w \in Workers : workerDone[w]
  /\ texts' = [i \in DOMAIN frames |-> MapGet(results, frames[i])]
  /\ pc' = "save"
  /\ UNCHANGED <<apart, config, disk, workers, tesseract, cached, frames, pool, tfidf, labels,
                 outcome, lastResult, calls, ocrCalls, ocrExit>>

\* await saveCache(videoHash, frames, texts)
SaveCache ==
  /\ pc = "save"
  /\ cacheFile' = Stringify(saveCache(frames, texts))
  /\ calls' = [calls EXCEPT !.save = @ + 1]
  /\ pc' = "tfidf"
  /\ UNCHANGED <<apart, config, frameFiles, workers, tesseract, cached, frames, texts, pool,
                 tfidf, labels, outcome, lastResult, ocrCalls, ocrExit>>

----------------------------------------------------------------------------
(* frameExtractor.ts: vectorize, cluster, group *)

\* const { matrix, originalIndices } = buildTfidfMatrix(texts)
BuildTfidf ==
  /\ pc = "tfidf"
  /\ tfidf' = buildTfidfMatrix(texts)
  /\ calls' = [calls EXCEPT !.tfidf = @ + 1]
  /\ pc' = "cluster"
  /\ UNCHANGED <<apart, config, disk, workers, tesseract, cached, frames, texts, pool, labels,
                 outcome, lastResult, ocrCalls, ocrExit>>

\* the largest k the automatic choice yields
MaxAutoK == 50

\* Math.round(Math.sqrt(n / 2))
RoundSqrtHalf(n) == (Isqrt(2 * n) + 1) \div 2

AutoK(n) == Max2(1, Min2(RoundSqrtHalf(n), MaxAutoK))

\* MapBack with the frames that were not vectorized given label 0
MapBackFilledWithZero(nFrames, clusterLabels, originalIndices) ==
  [i \in 1..nFrames |->
     IF \E r \in DOMAIN originalIndices : originalIndices[r] = i
     THEN clusterLabels[CHOOSE r \in DOMAIN originalIndices : originalIndices[r] = i]
     ELSE 0]

\* labels = new Array(frames.length).fill(-1); labels[originalIndices[i]] = clusterLabels[i]
MapBack(nFrames, clusterLabels, originalIndices) ==
  [i \in 1..nFrames |->
     IF \E r \in DOMAIN originalIndices : originalIndices[r] = i
     THEN clusterLabels[CHOOSE r \in DOMAIN originalIndices : originalIndices[r] = i]
     ELSE -1]

\* Strategy with nClusters looked at before dbscanEps
StrategyPreferringK(matrix, eps, k) ==
  IF Len(matrix) = 0 THEN "none"
  ELSE IF k # None THEN "kmeans"
  ELSE IF eps # None THEN "dbscan"
  ELSE "auto"

\* which clustering analyzeVideo runs: "none", "dbscan", "kmeans" or "auto"
Strategy(matrix, eps, k) ==
  IF Len(matrix) = 0 THEN "none"
  ELSE IF eps # None THEN "dbscan"
  ELSE IF k # None THEN "kmeans"
  ELSE "auto"

\* the clustering function analyzeVideo calls, and its second argument
ClusterCall(matrix, eps, k) ==
  LET strategy == Strategy(matrix, eps, k)
  IN CASE strategy = "none" -> NoClusterCall
       [] strategy = "dbscan" -> [fn |-> "clusterDBSCAN", arg |-> eps[1]]
       [] strategy = "kmeans" -> [fn |-> "clusterKMeans", arg |-> Min2(k[1], Len(matrix))]
       [] strategy = "auto" -> [fn |-> "clusterKMeans", arg |-> AutoK(Len(matrix))]

FrameLabels(nFrames, t, eps, k) ==
  LET call == ClusterCall(t.matrix, eps, k)
  IN CASE call.fn = "none" -> [i \in 1..nFrames |-> 0]
       [] call.fn = "clusterDBSCAN" ->
            MapBack(nFrames, clusterDBSCAN(t.matrix, call.arg), t.originalIndices)
       [] call.fn = "clusterKMeans" ->
            MapBack(nFrames, clusterKMeans(t.matrix, call.arg), t.originalIndices)

\* the branch of analyzeVideo that sets labels
ClusterFrames ==
  /\ pc = "cluster"
  /\ labels' = FrameLabels(Len(frames), tfidf, dbscanEps, nClusters)
  /\ calls' = [calls EXCEPT !.cluster = @ + (IF Len(tfidf.matrix) = 0 THEN 0 ELSE 1),
                            !.clusterCall = ClusterCall(tfidf.matrix, dbscanEps, nClusters)]
  /\ pc' = "output"
  /\ UNCHANGED <<apart, config, disk, workers, tesseract, cached, frames, texts, pool, tfidf,
                 outcome, lastResult, ocrCalls, ocrExit>>

\* ClusterMap with the label -1 left out
ClusterMapWithoutNoise(frameLabels) ==
  LET all == Distinct(frameLabels)
      kept == Ascending({c \in DOMAIN all : all[c] # -1})
      keys == [c \in DOMAIN kept |-> all[kept[c]]]
  IN [c \in DOMAIN keys |->
       [label |-> keys[c],
        indices |-> Ascending({i \in DOMAIN frameLabels : frameLabels[i] = keys[c]})]]

\* ClusterMap with every frame replacing the frames of its label: set(label, [i])
ClusterMapKeepingLast(frameLabels) ==
  LET keys == Distinct(frameLabels)
  IN [c \in DOMAIN keys |->
       [label |-> keys[c],
        indices |-> <<CHOOSE i \in DOMAIN frameLabels :
                        /\ frameLabels[i] = keys[c]
                        /\ \A k \in DOMAIN frameLabels : frameLabels[k] = keys[c] => k <= i>>]]

\* clusterMap: the labels in the order of their first frame, each with its frame indices
ClusterMap(frameLabels) ==
  LET keys == Distinct(frameLabels)
  IN [c \in DOMAIN keys |->
       [label |-> keys[c],
        indices |-> Ascending({i \in DOMAIN frameLabels : frameLabels[i] = keys[c]})]]

FrameSum(framePaths, indices) ==
  SumSeq([i \in DOMAIN indices |-> getFrameNumber(framePaths[indices[i]])])

\* a.avgFrame - b.avgFrame < 0
AvgBefore(framePaths, a, b) ==
  FrameSum(framePaths, a.indices) * Len(b.indices)
    < FrameSum(framePaths, b.indices) * Len(a.indices)

\* SortedClusters without the sort: the clusters in the order of clusterMap
ClustersInMapOrder(framePaths, clusters) == clusters

\* Array.prototype.sort by avgFrame: stable
RECURSIVE SortedClusters(_, _)
SortedClusters(framePaths, clusters) ==
  IF clusters = <<>> THEN <<>>
  ELSE LET rest == SortedClusters(framePaths, SubSeq(clusters, 1, Len(clusters) - 1))
           x == clusters[Len(clusters)]
           after == {i \in DOMAIN rest : AvgBefore(framePaths, x, rest[i])}
           at == IF after = {} THEN Len(rest) + 1
                 ELSE CHOOSE i \in after : \A k \in after : i <= k
       IN SubSeq(rest, 1, at - 1) \o <<x>> \o SubSeq(rest, at, Len(rest))

\* representative_frames/group_NN.jpg
ReprDest(groupIndex) == [dir |-> "representative_frames", num |-> groupIndex]

\* Array.prototype.sort by frameNumber: stable
RECURSIVE SortedByFrameNumber(_)
SortedByFrameNumber(entries) ==
  IF entries = <<>> THEN <<>>
  ELSE LET rest == SortedByFrameNumber(SubSeq(entries, 1, Len(entries) - 1))
           x == entries[Len(entries)]
           after == {i \in DOMAIN rest : x.frameNumber < rest[i].frameNumber}
           at == IF after = {} THEN Len(rest) + 1
                 ELSE CHOOSE i \in after : \A k \in after : i <= k
       IN SubSeq(rest, 1, at - 1) \o <<x>> \o SubSeq(rest, at, Len(rest))

\* TimeRange with the end taken from the first entry
TimeRangeOfFirst(frameTimestamps) ==
  [start |-> frameTimestamps[1].timestamp, end |-> frameTimestamps[1].timestamp]

\* timeRange; frameTimestamps is not empty, so the "00:00" defaults are never taken
TimeRange(frameTimestamps) ==
  [start |-> frameTimestamps[1].timestamp,
   end |-> frameTimestamps[Len(frameTimestamps)].timestamp]

\* one pass of the loop over sortedClusters
GroupInfo(framePaths, frameTexts, indices, gi) ==
  LET frameTimestamps ==
        SortedByFrameNumber(
          [i \in DOMAIN indices |->
             [frameNumber |-> getFrameNumber(framePaths[indices[i]]),
              timestamp |-> frameNumberToTimestamp(getFrameNumber(framePaths[indices[i]]))]])
  IN [groupIndex |-> gi,
      representativeFrame |-> ReprDest(gi),
      copiedFrom |-> selectRepresentative([i \in DOMAIN indices |-> framePaths[indices[i]]],
                                          [i \in DOMAIN indices |-> frameTexts[indices[i]]]),
      frameCount |-> Len(indices),
      timeRange |-> TimeRange(frameTimestamps),
      frames |-> frameTimestamps]

Groups(framePaths, frameTexts, frameLabels) ==
  LET sortedClusters == SortedClusters(framePaths, ClusterMap(frameLabels))
  IN [gi \in DOMAIN sortedClusters |->
       GroupInfo(framePaths, frameTexts, sortedClusters[gi].indices, gi)]

\* the groups are built, the representatives copied and the result returned
CreateOutputs ==
  /\ pc = "output"
  /\ LET groups == Groups(frames, texts, labels)
     IN /\ outcome' = [status |-> "ok", totalFrames |-> Len(frames), groups |-> groups,
                       representativeFramePaths |->
                         [gi \in DOMAIN groups |-> groups[gi].representativeFrame]]
        /\ calls' = [calls EXCEPT !.select = @ + Len(groups)]
  /\ pc' = "idle"
  /\ UNCHANGED <<apart, config, disk, workers, tesseract, cached, frames, texts, pool, tfidf,
                 labels, lastResult, ocrCalls, ocrExit>>

\* somebody removes a frame file from the cache directory between two runs; at most
\* one frame file of the video is missing at a time
DeleteFrameFile(framePath) ==
  /\ pc = "idle"
  /\ framePath \in frameFiles
  /\ \A n \in 1..videoFrames : FramePath(n) \in frameFiles
  /\ frameFiles' = frameFiles \ {framePath}
  /\ UNCHANGED <<apart, config, cacheFile, workers, tesseract, pc, cached, frames, texts, pool,
                 tfidf, labels, outcome, lastResult, calls, ocrCalls, ocrExit>>

Next ==
  \/ \E w \in Workers, installed \in BOOLEAN : StartRun(w, installed)
  \/ HashVideo
  \/ LookupCache
  \/ ExtractFrames
  \/ ExtractFramesFails
  \/ OcrLaunch
  \/ \E w \in Workers : OcrFrameSucceeds(w)
  \/ \E w \in Workers : OcrFrameFails(w)
  \/ OcrJoin
  \/ SaveCache
  \/ BuildTfidf
  \/ ClusterFrames
  \/ CreateOutputs
  \/ \E f \in frameFiles : DeleteFrameFile(f)

Spec == Init /\ [][Next]_vars

----------------------------------------------------------------------------
(* Runs with any worker count: the upload route passes parseInt of the query   *)
(* parameter workers to analyzeVideo, 0 included; tesseract is installed and   *)
(* prints the text of every frame of the slides, none of which is empty        *)

\* the worker counts a run is given
WorkerCounts == 0..MaxWorkers

AnyWorkersInit ==
  /\ Init
  /\ videoKind = "slides"
  /\ dbscanEps = None
  /\ nClusters = None

AnyWorkersNext ==
  \/ \E w \in WorkerCounts : StartRun(w, TRUE)
  \/ HashVideo
  \/ LookupCache
  \/ ExtractFrames
  \/ OcrLaunch
  \/ \E w \in Workers : OcrFrameSucceeds(w)
  \/ OcrJoin
  \/ SaveCache
  \/ BuildTfidf
  \/ ClusterFrames
  \/ CreateOutputs
  \/ \E f \in frameFiles : DeleteFrameFile(f)

AnyWorkersSpec == AnyWorkersInit /\ [][AnyWorkersNext]_vars

----------------------------------------------------------------------------
(* Runs on a warm cache: the stages after a cache hit, over longer videos *)

\* the largest number of frames of a cache record whose frames are gap-free
MaxWarmFrames == 5
\* the largest frame number of the first hour, and the largest number past the first
\* hour, of a cache record that lists one frame of a long video
MaxOrdinal == 1000

\* the frame numbers of the first hour
FramesPerHour == 3600 * SAMPLE_FPS

\* the frame numbers a cache record of one frame lists
Ordinals == (1..MaxOrdinal) \cup {FramesPerHour + n : n \in 1..MaxOrdinal}

\* what a cache record holds as the text of a frame
TextValues == {TxtInvoice, TxtInvoiceDue, TxtBlank}

\* analyzeVideo right after loadCache returned the record of framePaths and frameTexts
AfterCacheHit(framePaths, frameTexts) ==
  /\ SavingIdle
  /\ ServerIdle
  /\ GraphIdle
  /\ cacheFile = Stringify(saveCache(framePaths, frameTexts))
  /\ frameFiles = Range(framePaths)
  /\ cached = cacheRecord
  /\ frames = framePaths
  /\ texts = frameTexts
  /\ pc = "tfidf"
  /\ videoKind = "slides"
  /\ workers = 1
  /\ tesseract = TRUE
  /\ queue = <<>>
  /\ results = EmptyMap
  /\ completed = 0
  /\ inFlight = [w \in Workers |-> NoFrame]
  /\ workerDone = [w \in Workers |-> TRUE]
  /\ tfidf = NoTfidf
  /\ labels = <<>>
  /\ outcome = NoOutcome
  /\ lastResult = NoOutcome
  /\ calls = NoCalls
  /\ ocrCalls = EmptyMap
  /\ ocrExit = EmptyMap

\* the record lists every frame of a short video, or one frame of a long one
WarmInit ==
  \/ /\ videoFrames \in 1..MaxWarmFrames
     /\ dbscanEps \in {None} \cup {Some(e) : e \in EpsValues}
     /\ nClusters \in {None} \cup {Some(k) : k \in 0..MaxClusters}
     /\ \E frameTexts \in [1..videoFrames -> TextValues] :
          AfterCacheHit([i \in 1..videoFrames |-> FramePath(i)], frameTexts)
  \/ /\ videoFrames \in Ordinals
     /\ dbscanEps = None
     /\ nClusters = None
     /\ AfterCacheHit(<<FramePath(videoFrames)>>, <<TxtInvoice>>)

WarmNext ==
  \/ BuildTfidf
  \/ ClusterFrames
  \/ CreateOutputs

WarmSpec == WarmInit /\ [][WarmNext]_vars

----------------------------------------------------------------------------
(* graph/index.ts: the reconstruction graph *)

\* the largest maxIterations a caller of buildGraph passes
MaxIterationsOption == 3

\* the tool calls of one response of the model
ResponseToolCalls ==
  {<<>>, <<"write_latex">>, <<"compile_pdf">>, <<"done">>, <<"write_latex", "done">>}

SystemMessage == [type |-> "system", tool_calls |-> <<>>, name |-> ""]

HumanMessage == [type |-> "human", tool_calls |-> <<>>, name |-> ""]

AIMessage(toolCalls) == [type |-> "ai", tool_calls |-> toolCalls, name |-> ""]

\* the message ToolNode returns for a tool call
ToolMessage(toolName) == [type |-> "tool", tool_calls |-> <<>>, name |-> toolName]

\* tool_calls.some((tc) => tc.name === "done")
HasDoneCall(message) == "done" \in Range(message.tool_calls)

\* routeAfterAgent with iterationCount > maxIterations for the limit
routeAfterAgentPastLimit(stateMessages, stateIterationCount, stateIsDone, limit) ==
  LET lastMessage == stateMessages[Len(stateMessages)]
  IN IF stateIsDone THEN "END"
     ELSE IF stateIterationCount > limit THEN "END"
     ELSE IF lastMessage.type = "ai" /\ Len(lastMessage.tool_calls) > 0 THEN "tools"
     ELSE "END"

\* routeAfterAgent with the tool calls looked at before isDone: a response with a
\* done call is routed to tools
routeAfterAgentToolsFirst(stateMessages, stateIterationCount, stateIsDone, limit) ==
  LET lastMessage == stateMessages[Len(stateMessages)]
  IN IF stateIterationCount >= limit THEN "END"
     ELSE IF lastMessage.type = "ai" /\ Len(lastMessage.tool_calls) > 0 THEN "tools"
     ELSE "END"

routeAfterAgent(stateMessages, stateIterationCount, stateIsDone, limit) ==
  LET lastMessage == stateMessages[Len(stateMessages)]
  IN IF stateIsDone THEN "END"
     ELSE IF stateIterationCount >= limit THEN "END"
     ELSE IF lastMessage.type = "ai" /\ Len(lastMessage.tool_calls) > 0 THEN "tools"
     ELSE "END"

routeAfterTools(stateIsDone) == IF stateIsDone THEN "END" ELSE "agent"

\* the locals of analyzeVideo while no call of it is modelled
AnalyzerAtRest ==
  /\ dbscanEps = None
  /\ nClusters = None
  /\ workers = 1
  /\ tesseract = TRUE
  /\ pc = "idle"
  /\ cached = NoRecord
  /\ frames = <<>>
  /\ texts = <<>>
  /\ queue = <<>>
  /\ results = EmptyMap
  /\ completed = 0
  /\ inFlight = [w \in Workers |-> NoFrame]
  /\ workerDone = [w \in Workers |-> TRUE]
  /\ tfidf = NoTfidf
  /\ labels = <<>>
  /\ outcome = NoOutcome
  /\ lastResult = NoOutcome
  /\ calls = NoCalls
  /\ ocrCalls = EmptyMap
  /\ ocrExit = EmptyMap

\* the video analyzer while the graph runs: no video, no cache
AnalyzerIdle ==
  /\ AnalyzerAtRest
  /\ videoFrames = 0
  /\ videoKind = "static"
  /\ cacheFile = NoFile
  /\ frameFiles = {}

\* runGraph up to graph.invoke: the graph is built with the option or its default,
\* and the first state holds the system prompt and the image
GraphInit ==
  /\ AnalyzerIdle
  /\ SavingIdle
  /\ ServerIdle
  /\ maxIterations \in {DEFAULT_MAX_ITERATIONS} \cup (0..MaxIterationsOption)
  /\ graphNode = "START"
  /\ messages = <<SystemMessage, HumanMessage>>
  /\ iterationCount = 0
  /\ isDone = FALSE
  /\ agentRuns = 0
  /\ toolRuns = <<>>

\* addEdge(START, "agent")
EnterGraph ==
  /\ graphNode = "START"
  /\ graphNode' = "agent"
  /\ UNCHANGED <<analyzer, saving, server, maxIterations, messages, iterationCount, isDone,
                 agentRuns, toolRuns>>

\* agentNode, the model answering with these tool calls, and the routing after it
AgentNode(toolCalls) ==
  /\ graphNode = "agent"
  /\ messages' = Append(messages, AIMessage(toolCalls))
  /\ iterationCount' = iterationCount + 1
  /\ isDone' = (Len(toolCalls) > 0 /\ HasDoneCall(AIMessage(toolCalls)))
  /\ agentRuns' = agentRuns + 1
  /\ graphNode' = routeAfterAgent(messages', iterationCount', isDone', maxIterations)
  /\ UNCHANGED <<analyzer, saving, server, maxIterations, toolRuns>>

\* toolsNode: ToolNode executes the tool calls of the last message; and the routing
ToolsNode ==
  /\ graphNode = "tools"
  /\ LET toolCalls == messages[Len(messages)].tool_calls
     IN /\ messages' = messages \o [i \in DOMAIN toolCalls |-> ToolMessage(toolCalls[i])]
        /\ toolRuns' = toolRuns \o toolCalls
  /\ graphNode' = routeAfterTools(isDone)
  /\ UNCHANGED <<analyzer, saving, server, maxIterations, iterationCount, isDone, agentRuns>>

GraphNext ==
  \/ EnterGraph
  \/ \E toolCalls \in ResponseToolCalls : AgentNode(toolCalls)
  \/ ToolsNode

\* every call of the model and every tool call returns
GraphSpec == GraphInit /\ [][GraphNext]_vars /\ WF_vars(GraphNext)

----------------------------------------------------------------------------
(* saveCache of several runs of analyzeVideo on one video; writeFile opens        *)
(* ocr_cache.json with truncation and writes the text in one or more pieces, each *)
(* run at its own position in the file                                            *)

\* the largest number of frames of the video whose cache the runs share
MaxSavedFrames == 2

\* what lies where no run has written
Hole == Cell("hole", <<>>)

\* the file after the cells from..to of data are written at their own places
Overwrite(file, data, from, to) ==
  [i \in 1..Max2(Len(file), to) |->
     IF from <= i /\ i <= to THEN data[i]
     ELSE IF i <= Len(file) THEN file[i]
     ELSE Hole]

\* the texts of a run: what tesseract printed, or "" for every frame when every
\* invocation failed
RunTexts(framePaths, ocrWorks) ==
  [i \in DOMAIN framePaths |-> IF ocrWorks THEN FrameContent(framePaths[i]) ELSE TxtEmpty]

\* the records the runs have passed to saveCache
Saved == {saving[r].record : r \in {q \in Runs : saving[q].state # "no"}}

CacheInit ==
  /\ AnalyzerAtRest
  /\ GraphIdle
  /\ SavingIdle
  /\ ServerIdle
  /\ videoFrames \in 1..MaxSavedFrames
  /\ videoKind \in {"slides", "sparse"}
  /\ cacheFile = NoFile
  /\ frameFiles = {FramePath(i) : i \in 1..videoFrames}

\* saveCache of run r up to the first write: writeFile opens the file, which empties it
BeginSave(r, ocrWorks) ==
  /\ saving[r].state = "no"
  /\ LET framePaths == [i \in 1..videoFrames |-> FramePath(i)]
     IN saving' = [saving EXCEPT ![r] =
                     [record |-> saveCache(framePaths, RunTexts(framePaths, ocrWorks)),
                      written |-> 0,
                      state |-> "writing"]]
  /\ cacheFile' = NoFile
  /\ UNCHANGED <<graph, server, config, frameFiles, workers, tesseract, pc, cached, frames, texts,
                 pool, tfidf, labels, outcome, lastResult, calls, ocrCalls, ocrExit>>

\* one write of writeFile in run r: the next n cells of the text; writeFile returns
\* after the last one
WritePiece(r, n) ==
  /\ saving[r].state = "writing"
  /\ LET data == Stringify(saving[r].record)
         upTo == saving[r].written + n
     IN /\ upTo <= Len(data)
        /\ cacheFile' = Overwrite(cacheFile, data, saving[r].written + 1, upTo)
        /\ saving' = [saving EXCEPT ![r].written = upTo,
                                    ![r].state = IF upTo = Len(data) THEN "saved"
                                                 ELSE "writing"]
  /\ UNCHANGED <<graph, server, config, frameFiles, workers, tesseract, pc, cached, frames, texts,
                 pool, tfidf, labels, outcome, lastResult, calls, ocrCalls, ocrExit>>

\* the process of run r ends between two writes
Crash(r) ==
  /\ saving[r].state = "writing"
  /\ saving' = [saving EXCEPT ![r].state = "crashed"]
  /\ UNCHANGED <<graph, server, config, disk, workers, tesseract, pc, cached, frames, texts,
                 pool, tfidf, labels, outcome, lastResult, calls, ocrCalls, ocrExit>>

CacheNext ==
  \E r \in Runs :
    \/ \E ocrWorks \in BOOLEAN : BeginSave(r, ocrWorks)
    \/ \E n \in 1..Len(Stringify(saving[r].record)) : WritePiece(r, n)
    \/ Crash(r)

CacheSpec == CacheInit /\ [][CacheNext]_vars

----------------------------------------------------------------------------
(* server/jobStore.ts and the upload and result routes of the two routers; the   *)
(* background run of a job is analyzeVideo or runGraph, of which only the way it *)
(* ends matters here: it returns or it throws                                    *)

\* the message of the error a background run throws
ErrorMessage == "message"

\* res.json with the job id was sent
Responded(id) == jobPc[id] \notin {"none", "creating", "created"}

\* getJob: the job of job.json, or null when readFile or JSON.parse throws
getJob(id) == IF jobFile[id].kind = "json" THEN jobFile[id] ELSE NoJobFile

JobInit ==
  /\ AnalyzerIdle
  /\ SavingIdle
  /\ GraphIdle
  /\ ServerIdle

\* router.post("/upload") up to the first write of createJob: the job directory is
\* made and writeFile opens job.json, which creates it empty
Upload(id) ==
  /\ jobPc[id] = "none"
  /\ jobFile' = [jobFile EXCEPT ![id] = EmptyJobFile]
  /\ jobPc' = [jobPc EXCEPT ![id] = "creating"]
  /\ UNCHANGED <<analyzer, saving, graph, jobResult, answer>>

\* createJob: writeFile writes the job with status processing and returns
CreateJob(id) ==
  /\ jobPc[id] = "creating"
  /\ jobFile' = [jobFile EXCEPT ![id] = JobJson("processing", "")]
  /\ jobPc' = [jobPc EXCEPT ![id] = "created"]
  /\ UNCHANGED <<analyzer, saving, graph, jobResult, answer>>

\* res.json({success: true, data: {jobId, status: "processing"}}); the background run
\* starts
Respond(id) ==
  /\ jobPc[id] = "created"
  /\ jobPc' = [jobPc EXCEPT ![id] = "running"]
  /\ UNCHANGED <<analyzer, saving, graph, jobFile, jobResult, answer>>

\* the background run returns its result or throws
RunEnds(id, result) ==
  /\ jobPc[id] = "running"
  /\ jobResult' = [jobResult EXCEPT ![id] = result]
  /\ jobPc' = [jobPc EXCEPT ![id] = "read"]
  /\ UNCHANGED <<analyzer, saving, graph, jobFile, answer>>

\* updateJob: getJob; without a job it throws, in the catch of the run as well, and
\* the job is left as it is
UpdateRead(id) ==
  /\ jobPc[id] = "read"
  /\ jobPc' = [jobPc EXCEPT ![id] = IF getJob(id).kind = "json" THEN "open" ELSE "lost"]
  /\ UNCHANGED <<analyzer, saving, graph, jobFile, jobResult, answer>>

\* updateJob: writeFile opens job.json, which empties it
UpdateOpen(id) ==
  /\ jobPc[id] = "open"
  /\ jobFile' = [jobFile EXCEPT ![id] = EmptyJobFile]
  /\ jobPc' = [jobPc EXCEPT ![id] = "write"]
  /\ UNCHANGED <<analyzer, saving, graph, jobResult, answer>>

\* updateJob: writeFile writes the job with the new status and returns
UpdateWrite(id) ==
  /\ jobPc[id] = "write"
  /\ jobFile' = [jobFile EXCEPT ![id] =
                   IF jobResult[id] = "returned" THEN JobJson("completed", "")
                   ELSE JobJson("failed", ErrorMessage)]
  /\ jobPc' = [jobPc EXCEPT ![id] = "done"]
  /\ UNCHANGED <<analyzer, saving, graph, jobResult, answer>>

\* router.get("/result/:id") for an id an upload has returned: what it answers
QueryResult(id) ==
  /\ Responded(id)
  /\ answer' = [answer EXCEPT ![id] =
                  IF getJob(id).kind # "json" THEN "Job not found" ELSE getJob(id).status]
  /\ UNCHANGED <<analyzer, saving, graph, jobFile, jobPc, jobResult>>

JobNext ==
  \E id \in JobIds :
    \/ Upload(id)
    \/ CreateJob(id)
    \/ Respond(id)
    \/ \E result \in {"returned", "threw"} : RunEnds(id, result)
    \/ UpdateRead(id)
    \/ UpdateOpen(id)
    \/ UpdateWrite(id)
    \/ QueryResult(id)

JobSpec == JobInit /\ [][JobNext]_vars

----------------------------------------------------------------------------
(* What a finished run shows *)

\* analyzeVideo has returned a result
Returned == pc = "idle" /\ outcome.status = "ok"

\* analyzeVideo has returned or thrown
Ended == pc = "idle" /\ outcome.status # "none"

GroupMembers(group) == {group.frames[i].frameNumber : i \in DOMAIN group.frames}

\* the groups of the result that hold the frame at index i of frames
GroupsOf(i) ==
  {gi \in DOMAIN outcome.groups :
     getFrameNumber(frames[i]) \in GroupMembers(outcome.groups[gi])}

\* the frame numbers of the frames that carry the label
FramesLabelled(label) ==
  {getFrameNumber(frames[i]) : i \in {k \in DOMAIN labels : labels[k] = label}}

\* exactly two frames were vectorized, and their cosine distance exceeds eps
TwoDistantFrames ==
  /\ dbscanEps # None
  /\ Len(tfidf.matrix) = 2
  /\ cosineDistance(tfidf.matrix[1], tfidf.matrix[2]) > dbscanEps[1]

\* the record on disk is one loadCache accepts
CacheValid == cacheRecord.present /\ \A i \in DOMAIN cacheRecord.frames :
                                       FileExists(cacheRecord.frames[i])

----------------------------------------------------------------------------
(* Claims *)

\* C1 as stated: in every result, a frame whose label is -1 is a member of no group.
\* With DBSCAN and two vectorized frames whose cosine distance exceeds eps, both get
\* label -1 and no group holds either.
C1_NoiseInNoGroup ==
  Returned =>
    /\ \A i \in DOMAIN labels : labels[i] = -1 => GroupsOf(i) = {}
    /\ TwoDistantFrames =>
         \A r \in 1..2 : /\ labels[tfidf.originalIndices[r]] = -1
                         /\ GroupsOf(tfidf.originalIndices[r]) = {}

\* C1 as amended: in every result, the frames whose label is -1 are not discarded:
\* each is a member of exactly one group, whose members are exactly the frames
\* labelled -1.  With DBSCAN and two vectorized frames whose cosine distance exceeds
\* eps, both get label -1 and the result has one group that holds both.
C1_NoiseFormsOneGroup ==
  Returned =>
    /\ \A i \in DOMAIN labels :
         labels[i] = -1 =>
           /\ Cardinality(GroupsOf(i)) = 1
           /\ \A gi \in GroupsOf(i) : GroupMembers(outcome.groups[gi]) = FramesLabelled(-1)
    /\ TwoDistantFrames =>
         /\ \A r \in 1..2 : labels[tfidf.originalIndices[r]] = -1
         /\ \E gi \in DOMAIN outcome.groups :
              \A r \in 1..2 :
                getFrameNumber(frames[tfidf.originalIndices[r]])
                  \in GroupMembers(outcome.groups[gi])

\* a result of DBSCAN over two frames that are farther apart than eps
C1_Witness == Returned /\ TwoDistantFrames /\ Len(outcome.groups) = 1

\* C2 as stated: in every result, a frame whose text is empty or white space is
\* counted in totalFrames and is a member of no group.
C2_EmptyTextInNoGroup ==
  Returned =>
    /\ outcome.totalFrames = Len(frames)
    /\ \A i \in DOMAIN texts : ~HasText(texts[i]) => GroupsOf(i) = {}

\* C2 as amended: in every result, under every clustering strategy, a frame whose
\* text is empty or white space is counted in totalFrames and is a member of exactly
\* one group: the group of the frames labelled -1 when some frame has text, and the
\* single group of all frames (label 0) when no frame has text.
C2_EmptyTextInOneGroup ==
  Returned =>
    /\ outcome.totalFrames = Len(frames)
    /\ \A i \in DOMAIN texts :
         ~HasText(texts[i]) =>
           /\ labels[i] = (IF \E k \in DOMAIN texts : HasText(texts[k]) THEN -1 ELSE 0)
           /\ Cardinality(GroupsOf(i)) = 1
           /\ \A gi \in GroupsOf(i) :
                GroupMembers(outcome.groups[gi]) = FramesLabelled(labels[i])

\* a K-means result over frames with and without text
C2_Witness ==
  /\ Returned
  /\ Strategy(tfidf.matrix, dbscanEps, nClusters) = "kmeans"
  /\ \E i \in DOMAIN texts : ~HasText(texts[i])
  /\ \E i \in DOMAIN texts : HasText(texts[i])

\* the frames of the run that are in the queue, with tesseract, or in the result map
Queued == Range(queue)

WithTesseract == {inFlight[w] : w \in Workers} \ {NoFrame}

\* ocrAllFrames was called and has returned
OcrDone == calls.ocr = 1 /\ pc \notin {"ocr", "ocrwait"}

\* C3: while and after ocrAllFrames runs, under every interleaving of the workers,
\* every frame is in exactly one of: the queue, a tesseract invocation, the result
\* map; no frame is passed to tesseract twice, no two workers hold the same frame;
\* and when ocrAllFrames has returned every frame was passed to tesseract exactly
\* once and the map has exactly one entry for every input frame.
C3_EachFrameOnce ==
  calls.ocr = 1 /\ pc # "ocr" =>
    /\ \A f \in Range(frames) :
         /\ CountOf(ocrCalls, f) <= 1
         /\ Cardinality({w \in Workers : inFlight[w] = f}) <= 1
         /\ Count(queue, f) <= 1
         /\ (IF f \in Queued THEN 1 ELSE 0) + (IF f \in WithTesseract THEN 1 ELSE 0)
              + (IF f \in DOMAIN results THEN 1 ELSE 0) = 1
         /\ CountOf(ocrCalls, f) = (IF f \in Queued THEN 0 ELSE 1)
    /\ DOMAIN results \subseteq Range(frames)
    /\ Queued \cup WithTesseract \subseteq Range(frames)
    /\ OcrDone =>
         /\ DOMAIN results = Range(frames)
         /\ \A f \in Range(frames) : CountOf(ocrCalls, f) = 1
         /\ completed = Len(frames)

\* ocrAllFrames has returned for three frames shared by two workers
C3_Witness == OcrDone /\ pc = "save" /\ workers = 2 /\ Len(frames) = 3

\* C4: a frame whose tesseract invocation failed has the empty text, every other
\* frame keeps the text its own invocation printed, a worker ends only when the queue
\* is empty (so a worker whose invocation failed takes the next frame), ocrAllFrames
\* returns once every worker has ended, and the run that called it returns a result.
C4_FailureIsLocal ==
  /\ \A f \in DOMAIN results :
       results[f] = (IF ocrExit[f] = "ok" THEN FrameContent(f) ELSE TxtEmpty)
  /\ pc = "ocrwait" =>
       /\ \A w \in 1..Launched(workers, Len(frames)) : workerDone[w] => queue = <<>>
       /\ (\E w \in Workers : inFlight[w] # NoFrame) \/ (\A w \in Workers : workerDone[w])
  /\ OcrDone =>
       /\ outcome.status # "error"
       /\ \A i \in DOMAIN texts :
            texts[i] = (IF ocrExit[frames[i]] = "ok" THEN FrameContent(frames[i])
                        ELSE TxtEmpty)

\* a run has returned in which tesseract failed on one frame, and the worker that
\* had it went on to a frame on which tesseract succeeded
C4_Witness ==
  /\ Returned
  /\ workers = 1
  /\ \E i \in DOMAIN frames :
       /\ i < Len(frames)
       /\ ocrExit[frames[i]] = "failed"
       /\ ocrExit[frames[i + 1]] = "ok"
       /\ HasText(texts[i + 1])

\* C5: after loadCache returned a record, the run calls neither extractFrames nor
\* ocrAllFrames nor saveCache, passes no frame to tesseract and leaves the record as
\* it is; its frames and texts are those of the record, and the matrix and the groups
\* are computed from them.
C5_WarmCacheSkipsStages ==
  cached.present =>
    /\ calls.extract = 0 /\ calls.ocr = 0 /\ calls.save = 0
    /\ ocrCalls = EmptyMap
    /\ cacheRecord = cached
    /\ frames = cached.frames /\ texts = cached.texts
    /\ pc \in {"tfidf", "cluster", "output", "idle"}
    /\ calls.tfidf = 1 => tfidf = buildTfidfMatrix(cached.texts)
    /\ Returned => outcome.groups = Groups(cached.frames, cached.texts, labels)

\* a run on a warm cache has returned
C5_Witness == Returned /\ cached.present /\ Len(outcome.groups) >= 2

\* the run found no usable record
Missed == calls.extract >= 1 \/ pc = "extract"

\* what loadCache returns: a record if and only if one is stored and all its frame
\* files exist, and then that record; loadCache raises no error
LoadCacheContract ==
  /\ pc = "extract" => ~CacheValid /\ ~cached.present
  /\ cached.present => cached = cacheRecord /\ (pc # "idle" => CacheValid)
  /\ pc \notin {"idle", "hash", "lookup"} => (cached.present <=> ~Missed)

C7_ZeroFramesReturnEmpty ==
  calls.extract = 1 /\ calls.ffmpegFailed = 0 /\ Len(frames) = 0 =>
    /\ Returned
    /\ outcome.totalFrames = 0
    /\ outcome.groups = <<>>
    /\ outcome.representativeFramePaths = <<>>
    /\ calls.ocr = 0 /\ calls.save = 0 /\ calls.tfidf = 0 /\ calls.cluster = 0
    /\ calls.select = 0
    /\ ocrCalls = EmptyMap

\* a run whose extraction yielded no frame has returned
C7_Witness == Returned /\ calls.extract = 1 /\ Len(frames) = 0 /\ videoFrames = 0

\* C8 as stated: a run during which the tesseract binary is missing ends in an error
\* and returns no result.
C8_MissingOcrBinaryIsFatal ==
  Ended /\ calls.ocr = 1 /\ ~tesseract => outcome.status = "error"

SameGroups(a, b) ==
  /\ Len(a.groups) = Len(b.groups)
  /\ \A gi \in DOMAIN a.groups :
       /\ a.groups[gi].frames = b.groups[gi].frames
       /\ a.groups[gi].copiedFrom = b.groups[gi].copiedFrom
       /\ a.groups[gi].groupIndex = b.groups[gi].groupIndex

\* C10: a run on a warm cache returns the groups the run before it returned (that
\* run saved the record or read it as well; the video and the clustering parameters
\* are the same): the same number of groups, the same members per group in the same
\* order of groups, the same representative per group.
C10_WarmRunsAgree ==
  Returned /\ cached.present /\ lastResult.status = "ok" =>
    /\ SameGroups(outcome, lastResult)
    /\ outcome.totalFrames = lastResult.totalFrames

\* a run on a warm cache has returned at least two groups, as did the run before it
C10_Witness ==
  /\ Returned
  /\ cached.present
  /\ lastResult.status = "ok"
  /\ Len(outcome.groups) >= 2
  /\ \E i \in DOMAIN texts : ~HasText(texts[i])


\* the sum of the frame numbers of the members of a group
OrdinalSum(group) == SumSeq([i \in DOMAIN group.frames |-> group.frames[i].frameNumber])

\* the mean frame number of group a is at most that of group b
MeanAtMost(a, b) ==
  OrdinalSum(a) * Len(b.frames) <= OrdinalSum(b) * Len(a.frames)

\* C11: in every result the groups are in ascending order of the mean frame number
\* of their members, and the group at place i (counted from 1) has groupIndex i, so
\* the group indices are exactly 1..G without gap or repeat.
C11_GroupsInMeanOrder ==
  Returned =>
    /\ \A gi \in DOMAIN outcome.groups : outcome.groups[gi].groupIndex = gi
    /\ \A gi \in DOMAIN outcome.groups : \A gj \in DOMAIN outcome.groups :
         gi < gj => MeanAtMost(outcome.groups[gi], outcome.groups[gj])
    /\ {outcome.groups[gi].groupIndex : gi \in DOMAIN outcome.groups}
         = 1..Len(outcome.groups)

\* a result in which the group of the first frame is not the first group: the label
\* met first has the larger mean frame number
C11_Witness ==
  /\ Returned
  /\ Len(outcome.groups) >= 2
  /\ 1 \notin GroupMembers(outcome.groups[1])
  /\ ~MeanAtMost(outcome.groups[2], outcome.groups[1])

\* the number of frames that were vectorized
NVectors == Cardinality({i \in DOMAIN texts : HasText(texts[i])})

\* r is sqrt(n / 2) rounded to the nearest integer
IsRoundedSqrtHalf(r, n) == (2 * r - 1) * (2 * r - 1) <= 2 * n /\ 2 * n < (2 * r + 1) * (2 * r + 1)

\* the labels of the frames when the labels of the vectorized ones are clusterLabels
LabelsFrom(clusterLabels) ==
  [i \in DOMAIN frames |->
     IF HasText(texts[i])
     THEN clusterLabels[Cardinality({k \in 1..i : HasText(texts[k])})]
     ELSE -1]

\* C12: once analyzeVideo has set the labels and at least one frame has text: if eps
\* is given, clusterDBSCAN is called with it, whether or not nClusters is given too;
\* otherwise, if nClusters is given, clusterKMeans is called with that k (capped at
\* the number of vectors); otherwise clusterKMeans is called with
\* k = clamp(round(sqrt(nVectors / 2)), 1, 50), nVectors being the number of frames
\* with text.  The labels are those the called function returns.
C12_StrategyByOptions ==
  calls.cluster = 1 /\ NVectors > 0 =>
    /\ Len(tfidf.matrix) = NVectors
    /\ dbscanEps # None =>
         /\ calls.clusterCall = [fn |-> "clusterDBSCAN", arg |-> dbscanEps[1]]
         /\ labels = LabelsFrom(clusterDBSCAN(tfidf.matrix, dbscanEps[1]))
    /\ dbscanEps = None /\ nClusters # None =>
         /\ calls.clusterCall.fn = "clusterKMeans"
         /\ calls.clusterCall.arg = Min2(nClusters[1], NVectors)
         /\ labels = LabelsFrom(clusterKMeans(tfidf.matrix, nClusters[1]))
    /\ dbscanEps = None /\ nClusters = None =>
         /\ calls.clusterCall.fn = "clusterKMeans"
         /\ \E r \in 0..NVectors :
              /\ IsRoundedSqrtHalf(r, NVectors)
              /\ calls.clusterCall.arg = Max2(1, Min2(r, MaxAutoK))
         /\ labels = LabelsFrom(clusterKMeans(tfidf.matrix, calls.clusterCall.arg))

\* a result for which both eps and nClusters were given, nClusters asking for one
\* cluster and DBSCAN finding noise
C12_Witness ==
  /\ Returned
  /\ dbscanEps # None
  /\ nClusters = Some(1)
  /\ NVectors >= 2
  /\ \E i \in DOMAIN labels : HasText(texts[i]) /\ labels[i] = -1

\* the index in frames of the frame with the frame number
IndexOfFrame(frameNumber) ==
  CHOOSE i \in DOMAIN frames : getFrameNumber(frames[i]) = frameNumber

\* the texts of the members of a group, in the order of the group
TextsOf(group) ==
  [m \in DOMAIN group.frames |-> texts[IndexOfFrame(group.frames[m].frameNumber)]]

\* the places in a sequence of texts of the texts that are not empty
WithText(groupTexts) == {m \in DOMAIN groupTexts : HasText(groupTexts[m])}

\* the member of greatest similarity in sim, a function from the members with text
\* to their similarity to the centroid: best is at least as similar as every member
\* and more similar than every earlier one
NearestAndEarliest(sim, best) ==
  /\ best \in DOMAIN sim
  /\ \A m \in DOMAIN sim :
       /\ sim[m] <= sim[best]
       /\ m < best => sim[m] < sim[best]

\* the representative of a group with these texts is the member at place best
RepresentativeIsNearest(groupTexts, best) ==
  \A withText \in {WithText(groupTexts)} :
    Cardinality(withText) >= 2 =>
      \A matrix \in {buildTfidfMatrix(groupTexts).matrix} :
        \A centroid \in {Centroid(matrix)} :
          NearestAndEarliest(
            [m \in withText |->
               cosineSimilarity(matrix[Cardinality({k \in withText : k <= m})], centroid)],
            best)

\* the place in the group of the frame that was copied as its representative
RepresentativeOf(group) ==
  CHOOSE m \in DOMAIN group.frames : group.frames[m].frameNumber = group.copiedFrom.num

\* C13: in every result, the representative of a group with at least two texts that
\* are not empty is a member with text whose local TF-IDF vector is at least as
\* similar to the centroid as that of every other member, and more similar than that
\* of every earlier member.  For three frames that all read "invoice total 42" and
\* nClusters = 1 the result has one group of three members, represented by frame 1.
C13_RepresentativeIsNearestToCentroid ==
  Returned =>
    /\ \A gi \in DOMAIN outcome.groups :
         /\ outcome.groups[gi].copiedFrom \in Range(frames)
         /\ \A groupTexts \in {TextsOf(outcome.groups[gi])} :
              RepresentativeIsNearest(groupTexts, RepresentativeOf(outcome.groups[gi]))
    /\ (/\ texts = <<TxtInvoice, TxtInvoice, TxtInvoice>>
        /\ dbscanEps = None
        /\ nClusters = Some(1)) =>
         /\ Len(outcome.groups) = 1
         /\ outcome.groups[1].frameCount = 3
         /\ GroupMembers(outcome.groups[1]) = {1, 2, 3}
         /\ outcome.groups[1].copiedFrom = FramePath(1)

\* the result for three frames that all read "invoice total 42", with nClusters = 1
C13_Witness ==
  /\ Returned
  /\ texts = <<TxtInvoice, TxtInvoice, TxtInvoice>>
  /\ dbscanEps = None
  /\ nClusters = Some(1)
  /\ outcome.groups[1].copiedFrom = FramePath(1)

\* the frame number of the frame copied as the representative of a group
RepresentativeNumber(group) == getFrameNumber(group.copiedFrom)

\* the least frame number among the members of a group
FirstMember(group) ==
  CHOOSE n \in GroupMembers(group) : \A k \in GroupMembers(group) : n <= k

\* C14: in every result, the representative of a group of one frame is that frame;
\* of a group whose texts are all empty or white space, its member of the least
\* frame number; of a group in which exactly one member has a text that is not
\* empty, that member; and the representative of every group is one of its members.
C14_RepresentativeEdgeCases ==
  Returned =>
    \A gi \in DOMAIN outcome.groups :
      \A group \in {outcome.groups[gi]} :
        \A groupTexts \in {TextsOf(group)} :
          /\ group.copiedFrom \in Range(frames)
          /\ RepresentativeNumber(group) \in GroupMembers(group)
          /\ Len(group.frames) = 1 =>
               RepresentativeNumber(group) = group.frames[1].frameNumber
          /\ WithText(groupTexts) = {} =>
               RepresentativeNumber(group) = FirstMember(group)
          /\ Cardinality(WithText(groupTexts)) = 1 =>
               RepresentativeOf(group) \in WithText(groupTexts)

\* a result with a group of several frames of which only one, and not the first, has
\* a text that is not empty
C14_Witness ==
  /\ Returned
  /\ \E gi \in DOMAIN outcome.groups :
       /\ Len(outcome.groups[gi].frames) >= 2
       /\ Cardinality(WithText(TextsOf(outcome.groups[gi]))) = 1
       /\ 1 \notin WithText(TextsOf(outcome.groups[gi]))

\* the greatest frame number among the members of a group
LastMember(group) ==
  CHOOSE n \in GroupMembers(group) : \A k \in GroupMembers(group) : n >= k

\* C15: in every result, for every group: timeRange.start is the timestamp of the
\* member of the least frame number and timeRange.end that of the member of the
\* greatest; the frames list is in ascending order of frame number; and frameCount
\* is the number of members, which are the frames that carry the label of the group.
C15_TimeRangeSpansMembers ==
  Returned =>
    \A gi \in DOMAIN outcome.groups :
      \A group \in {outcome.groups[gi]} :
        /\ group.timeRange.start = frameNumberToTimestamp(FirstMember(group))
        /\ group.timeRange.end = frameNumberToTimestamp(LastMember(group))
        /\ \A m \in 1..(Len(group.frames) - 1) :
             group.frames[m].frameNumber < group.frames[m + 1].frameNumber
        /\ group.frameCount = Len(group.frames)
        /\ group.frameCount = Cardinality(GroupMembers(group))
        /\ GroupMembers(group) = FramesLabelled(labels[IndexOfFrame(FirstMember(group))])

\* a result with a group whose members are not neighbours and whose time range
\* starts and ends at different timestamps
C15_Witness ==
  /\ Returned
  /\ \E gi \in DOMAIN outcome.groups :
       /\ outcome.groups[gi].frameCount >= 2
       /\ outcome.groups[gi].timeRange.start # outcome.groups[gi].timeRange.end
       /\ LastMember(outcome.groups[gi]) - FirstMember(outcome.groups[gi])
            >= outcome.groups[gi].frameCount

\* the fields of a timestamp
HoursOf(ts) == IF Len(ts) = 3 THEN ts[1] ELSE 0

MinutesOf(ts) == ts[Len(ts) - 1]

TenthsOf(ts) == ts[Len(ts)]

\* the time a timestamp stands for, in tenths of a second
InTenths(ts) == 10 * (3600 * HoursOf(ts) + 60 * MinutesOf(ts)) + TenthsOf(ts)

Abs(x) == IF x < 0 THEN 0 - x ELSE x

\* ts renders the time of frame n, (n - 1) / 15 seconds, rounded to a tenth of a
\* second: 15 * InTenths(ts) differs from 10 * (n - 1) by at most 15 / 2
RendersFrameTime(ts, n) == 2 * Abs(15 * InTenths(ts) - 10 * (n - 1)) <= 15

LastResponse ==
  messages[CHOOSE i \in DOMAIN messages :
             /\ messages[i].type = "ai"
             /\ \A k \in DOMAIN messages : messages[k].type = "ai" => k <= i]

\* C19 as stated: a run that has ended after a response with a call of the done tool
\* has executed the tool calls of that response, the done tool among them, after the
\* response: the messages end with the messages of these tools.
C19_DoneCallRunsTools ==
  graphNode = "END" /\ agentRuns > 0 /\ HasDoneCall(LastResponse) =>
    /\ "done" \in Range(toolRuns)
    /\ messages[Len(messages)].type = "tool"
    /\ \A i \in DOMAIN LastResponse.tool_calls :
         LastResponse.tool_calls[i] \in Range(toolRuns)

RECURSIVE SumOver(_, _)
SumOver(m, keys) ==
  IF keys = {} THEN 0
  ELSE LET k == CHOOSE x \in keys : TRUE
       IN m[k] + SumOver(m, keys \ {k})

\* tesseract invocations started and not yet recorded
InvocationsInFlight == SumOver(ocrCalls, DOMAIN ocrCalls) - completed

\* the workers holding a frame
Busy == {w \in Workers : inFlight[w] # NoFrame}

\* what holds at every moment of ocrAllFrames
PoolBounded ==
  pc = "ocrwait" =>
    /\ InvocationsInFlight <= Min2(workers, Len(frames))
    /\ InvocationsInFlight = Cardinality(Busy)
    /\ Busy \subseteq 1..Min2(workers, Len(frames))
    /\ \A w \in Busy : inFlight[w] \notin DOMAIN results
    /\ \A v, w \in Busy : inFlight[v] = inFlight[w] => v = w

\* a step in which worker w takes a new frame
TakesFrame(w) == pc = "ocrwait" /\ inFlight'[w] # inFlight[w] /\ inFlight'[w] # NoFrame

\* C20: at every moment of ocrAllFrames at most min(workers, number of frames)
\* tesseract invocations are in flight, every worker holds at most one of them (the
\* invocations in flight are as many as the workers holding a frame, no two of which
\* hold the same one), and a worker takes a new frame only in a step that records
\* the text of the frame it held.
C20_PoolIsBounded ==
  /\ []PoolBounded
  /\ [][\A w \in Workers :
          TakesFrame(w) =>
            /\ inFlight[w] # NoFrame
            /\ inFlight[w] \notin DOMAIN results
            /\ inFlight[w] \in DOMAIN results'
            /\ completed' = completed + 1]_vars

\* the first worker, its first frame recorded, holds the third frame while the second
\* worker still holds the second
C20_Witness ==
  /\ pc = "ocrwait"
  /\ workers = 2
  /\ Len(frames) = 3
  /\ inFlight[1] = frames[3]
  /\ inFlight[2] = frames[2]
  /\ frames[1] \in DOMAIN results
  /\ InvocationsInFlight = 2

\* C16 as stated: whatever the runs that save the cache of one video do, a save under
\* way, ended by a crash or interleaved with another, loadCache returns nothing or a
\* record that one of the runs passed to saveCache, whole, with as many texts as
\* frames.
C16_SaveIsAtomic ==
  \A record \in {loadCache(cacheRecord)} :
    record.present =>
      /\ Len(record.frames) = Len(record.texts)
      /\ record \in Saved

\* no worker is running: every invocation of tesseract has ended and its text is in
\* the result map
PoolAtRest ==
  /\ Busy = {}
  /\ \A w \in Workers : workerDone[w]
  /\ InvocationsInFlight = 0
  /\ DOMAIN ocrCalls \subseteq DOMAIN results

\* nothing of the pool is left to do
PoolDrained == queue = <<>> /\ PoolAtRest

\* C21 as stated: once ocrAllFrames has resolved the queue is empty and every worker
\* has ended, no tesseract invocation is in flight and the text of every frame taken
\* from the queue is in the result map.
C21_BarrierJoin == calls.ocr = 1 /\ pc \notin {"ocr", "ocrwait"} => PoolDrained

\* the stage a run is in, and the stages that may follow it
StageOrder ==
  {<<"idle", "hash">>, <<"hash", "lookup">>, <<"lookup", "tfidf">>, <<"lookup", "extract">>,
   <<"extract", "ocr">>, <<"extract", "idle">>, <<"ocr", "ocrwait">>, <<"ocrwait", "save">>,
   <<"save", "tfidf">>, <<"tfidf", "cluster">>, <<"cluster", "output">>,
   <<"output", "idle">>}

\* the stages that have completed when a later stage has started or completed
StagesComplete ==
  /\ calls.extract >= 1 => pc \notin {"hash", "lookup"} /\ ~cached.present
  /\ calls.ocr >= 1 => calls.extract = 1 /\ pc # "extract" /\ Len(frames) > 0
  /\ calls.save >= 1 =>
       /\ calls.ocr = 1
       /\ PoolAtRest
       /\ texts = [i \in DOMAIN frames |-> MapGet(results, frames[i])]
  /\ calls.tfidf >= 1 =>
       /\ pc \in {"cluster", "output", "idle"}
       /\ \/ cached.present /\ calls.extract = 0 /\ calls.ocr = 0 /\ calls.save = 0
          \/ ~cached.present /\ calls.save = 1 /\ cacheRecord = saveCache(frames, texts)
       /\ tfidf = buildTfidfMatrix(texts)
  /\ labels # <<>> \/ calls.cluster >= 1 => calls.tfidf = 1 /\ pc \in {"output", "idle"}
  /\ calls.select >= 1 =>
       /\ pc = "idle"
       /\ calls.tfidf = 1
       /\ Len(labels) = Len(frames)
  /\ \A stage \in {"extract", "ocr", "save", "tfidf", "cluster"} : calls[stage] <= 1

\* C22: the stages of analyzeVideo follow one another in the order hash, cache lookup,
\* (on a miss) frame sampling, OCR, save, then vectorization, clustering, selection of
\* the representatives; a stage starts only when the stage before it has completed,
\* and at most one stage is under way.
C22_StagesInOrder ==
  /\ []StagesComplete
  /\ [][pc' # pc => <<pc, pc'>> \in StageOrder]_vars

\* a run on a cold cache has gone through every stage and returned its groups
C22_Witness ==
  /\ Returned
  /\ ~cached.present
  /\ calls.extract = 1 /\ calls.ocr = 1 /\ calls.save = 1
  /\ calls.tfidf = 1 /\ calls.cluster = 1 /\ calls.select >= 1

\* what dbscan.run leaves behind for the matrix and radius of the last clustering
DbscanState ==
  DbscanRun(tfidf.matrix, calls.clusterCall.arg, MinSamples,
            [clusters |-> <<>>, noise |-> <<>>, visited |-> {}, assigned |-> {}], 1)

\* the rows of the matrix with this label
RowsLabelled(clusterLabels, label) == {p \in DOMAIN clusterLabels : clusterLabels[p] = label}

\* the labels cover the rows as the clusters of dbscan.run do
CoversRows(clusterLabels, clusters, noise) ==
  /\ Len(clusterLabels) = Len(tfidf.matrix)
  /\ \A p \in DOMAIN clusterLabels : clusterLabels[p] \in -1..(Len(clusters) - 1)
  /\ \A c \in DOMAIN clusters :
       /\ Range(clusters[c]) = RowsLabelled(clusterLabels, c - 1)
       /\ Cardinality(Range(clusters[c])) = Len(clusters[c])
  /\ \A c, d \in DOMAIN clusters : c # d => Range(clusters[c]) \cap Range(clusters[d]) = {}
  /\ RowsLabelled(clusterLabels, -1) \subseteq Range(noise)
  /\ RowsLabelled(clusterLabels, -1) \cup UNION {Range(clusters[c]) : c \in DOMAIN clusters}
       = DOMAIN tfidf.matrix

\* C23: after a clustering by clusterDBSCAN there is one label per row of the matrix;
\* a row has the label c exactly if it is in the cluster c of dbscan.run and -1
\* exactly if it is in none, the clusters are pairwise disjoint and, with the rows
\* labelled -1, make up all rows; and every vectorized frame carries the label of
\* its row.
C23_DbscanLabelsCoverRows ==
  pc = "output" /\ calls.clusterCall.fn = "clusterDBSCAN" =>
    /\ \A clusterLabels \in {clusterDBSCAN(tfidf.matrix, calls.clusterCall.arg)} :
         /\ Len(tfidf.matrix) >= MinSamples =>
              \A st \in {DbscanState} : CoversRows(clusterLabels, st.clusters, st.noise)
         /\ Len(tfidf.matrix) < MinSamples =>
              CoversRows(clusterLabels, <<[p \in DOMAIN tfidf.matrix |-> p]>>, <<>>)
         /\ \A r \in DOMAIN tfidf.originalIndices :
              labels[tfidf.originalIndices[r]] = clusterLabels[r]
    /\ Len(labels) = Len(frames)
    /\ \A i \in DOMAIN frames : HasText(texts[i]) => i \in Range(tfidf.originalIndices)

\* clusterDBSCAN has found a cluster of two rows or more and a noise row
C23_Witness ==
  /\ pc = "output"
  /\ calls.clusterCall.fn = "clusterDBSCAN"
  /\ Len(tfidf.matrix) >= 3
  /\ \E c \in 0..Len(tfidf.matrix) :
       Cardinality({i \in DOMAIN labels : labels[i] = c}) >= 2
  /\ \E i \in Range(tfidf.originalIndices) : labels[i] = -1

\* the cluster counts passed to clusterKMeans: none or less, and up to one more than
\* the largest count a caller asks for
KValues == -1..(MaxClusters + 1)

\* what C24 says of the labels clusterKMeans returns for k clusters
KMeansLabelsInRange(matrix, k, clusterLabels) ==
  /\ Len(clusterLabels) = Len(matrix)
  /\ \A r \in DOMAIN clusterLabels :
       /\ clusterLabels[r] \in Int
       /\ clusterLabels[r] >= 0
       /\ clusterLabels[r] < Max2(1, Min2(k, Len(matrix)))
  /\ Min2(k, Len(matrix)) <= 1 => \A r \in DOMAIN clusterLabels : clusterLabels[r] = 0

\* C24: for every matrix a run builds and every k, clusterKMeans returns one label per
\* row, every label is at least 0 and less than max(1, min(k, rows)), and all labels
\* are 0 when min(k, rows) <= 1; a frame vectorized in a run that clusters with
\* clusterKMeans never has the label -1.
C24_KMeansLabelsNonNegative ==
  pc = "output" /\ calls.clusterCall.fn # "clusterDBSCAN" =>
    /\ \A k \in KValues :
         KMeansLabelsInRange(tfidf.matrix, k, clusterKMeans(tfidf.matrix, k))
    /\ calls.clusterCall.fn = "clusterKMeans" =>
         /\ \A r \in DOMAIN tfidf.originalIndices :
              /\ labels[tfidf.originalIndices[r]] >= 0
              /\ labels[tfidf.originalIndices[r]] < Max2(1, calls.clusterCall.arg)
         /\ calls.clusterCall.arg <= 1 =>
              \A r \in DOMAIN tfidf.originalIndices : labels[tfidf.originalIndices[r]] = 0

\* clusterKMeans was asked for two clusters of three rows or more and used both labels
C24_Witness ==
  /\ pc = "output"
  /\ calls.clusterCall = [fn |-> "clusterKMeans", arg |-> 2]
  /\ nClusters = Some(2)
  /\ Len(tfidf.matrix) >= 3
  /\ {labels[tfidf.originalIndices[r]] : r \in DOMAIN tfidf.originalIndices} = {0, 1}

\* the positions of the texts that are not empty and not white space only
PositionsWithText == {i \in DOMAIN texts : HasText(texts[i])}

\* the terms of the documents of the run, and in how many documents a term occurs
TermsObserved == UNION {Range(Tokenize(texts[i])) : i \in PositionsWithText}

DocumentsWith(term) == {i \in PositionsWithText : term \in Range(Tokenize(texts[i]))}

\* the terms the retention rule keeps
TermsRetained ==
  LET nDocs == Cardinality(PositionsWithText)
  IN {term \in TermsObserved :
        /\ 1 <= Cardinality(DocumentsWith(term))
        /\ nDocs > 1 => 100 * Cardinality(DocumentsWith(term)) <= 95 * nDocs}

\* C25: the vocabulary buildTfidfMatrix returns is the set of observed terms that
\* occur in at least one and, with more than one document, in at most
\* floor(0.95 * nDocs) documents, or every observed term if there is no such term;
\* it lists no term twice; originalIndices lists in increasing order exactly the
\* positions of the texts that are not empty and not white space only, one per row.
C25_VocabularyRetention ==
  pc = "cluster" =>
    /\ Range(tfidf.vocabulary) =
         (IF TermsRetained # {} THEN TermsRetained ELSE TermsObserved)
    /\ Cardinality(PositionsWithText) = 1 => Range(tfidf.vocabulary) = TermsObserved
    /\ Cardinality(Range(tfidf.vocabulary)) = Len(tfidf.vocabulary)
    /\ Range(tfidf.originalIndices) = PositionsWithText
    /\ \A r \in 1..(Len(tfidf.originalIndices) - 1) :
         tfidf.originalIndices[r] < tfidf.originalIndices[r + 1]
    /\ Len(tfidf.matrix) = Len(tfidf.originalIndices)
    /\ \A r \in DOMAIN tfidf.matrix : Len(tfidf.matrix[r]) = Len(tfidf.vocabulary)

\* three documents or more after a text of white space: a term of all documents is
\* left out of the vocabulary, a term of one document is in it
C25_Witness ==
  /\ pc = "cluster"
  /\ Cardinality(PositionsWithText) >= 3
  /\ 1 \notin PositionsWithText
  /\ <<"invoice">> \in TermsObserved \ Range(tfidf.vocabulary)
  /\ <<"due">> \in Range(tfidf.vocabulary)

\* the tolerance of a norm: half a percent
NormTolerance == One \div 200

\* the tokens of the document of row r
DocumentOfRow(r) == Tokenize(texts[tfidf.originalIndices[r]])

\* tf' * idf' of the terms of the vocabulary for the document of row r
WeightsOfRow(r) ==
  [j \in DOMAIN tfidf.vocabulary |->
     LET count == Count(DocumentOfRow(r), tfidf.vocabulary[j])
         df == Cardinality(DocumentsWith(tfidf.vocabulary[j]))
     IN IF count = 0 THEN 0
        ELSE ((One + Ln(count)) * (Ln(1 + Len(tfidf.matrix)) - Ln(1 + df) + One)) \div One]

\* row is weights divided by the norm of weights, entry by entry
IsNormalized(row, weights) ==
  \A norm \in {Isqrt(SquaredNorm(weights))} :
    /\ norm > 0
    /\ \A j \in DOMAIN row :
         /\ row[j] * norm <= weights[j] * One
         /\ weights[j] * One < (row[j] + 1) * norm
    /\ Abs(Isqrt(SquaredNorm(row)) - One) <= NormTolerance

\* C26: a row of the matrix is the zero vector exactly if its document has no term
\* of the vocabulary; every other row is the vector of (1 + ln count) *
\* (ln((1 + nDocs) / (1 + df)) + 1) over the vocabulary divided by its norm, and has
\* the norm 1 within the tolerance.
C26_RowsZeroOrUnit ==
  pc = "cluster" =>
    \A r \in DOMAIN tfidf.matrix :
      \A row \in {tfidf.matrix[r]} :
        /\ (\A j \in DOMAIN row : row[j] = 0)
             <=> Range(DocumentOfRow(r)) \cap Range(tfidf.vocabulary) = {}
        /\ (\E j \in DOMAIN row : row[j] # 0) => IsNormalized(row, WeightsOfRow(r))

\* a document of stop words and other characters only has the zero row next to a
\* document whose row has several entries and the norm 1
C26_Witness ==
  /\ pc = "cluster"
  /\ Len(tfidf.vocabulary) >= 2
  /\ \E r \in DOMAIN tfidf.matrix :
       /\ HasText(texts[tfidf.originalIndices[r]])
       /\ DocumentOfRow(r) = <<>>
       /\ \A j \in DOMAIN tfidf.matrix[r] : tfidf.matrix[r][j] = 0
  /\ \E r \in DOMAIN tfidf.matrix :
       /\ Cardinality({j \in DOMAIN tfidf.matrix[r] : tfidf.matrix[r][j] > 0}) >= 2
       /\ Abs(Isqrt(SquaredNorm(tfidf.matrix[r])) - One) <= NormTolerance

\* one empty text per frame
AllEmpty(framePaths) == [i \in DOMAIN framePaths |-> TxtEmpty]

GroupsHolding(i) ==
  {g \in DOMAIN outcome.groups :
     \E k \in DOMAIN outcome.groups[g].frames :
       outcome.groups[g].frames[k].frameNumber = getFrameNumber(frames[i])}

\* C28: in a result with totalFrames > 0 every frame, with or without text, is in
\* exactly one group and once, no group is empty, frameCount is the number of frames
\* of its group, the frameCounts add up to totalFrames and representativeFramePaths
\* is as long as groups.
C28_GroupsPartitionFrames ==
  Returned /\ outcome.totalFrames > 0 =>
    /\ outcome.totalFrames = Len(frames)
    /\ \A i \in DOMAIN frames : Cardinality(GroupsHolding(i)) = 1
    /\ \A g \in DOMAIN outcome.groups :
         \A group \in {outcome.groups[g]} :
           /\ group.frameCount >= 1
           /\ group.frameCount = Len(group.frames)
           /\ Cardinality({group.frames[k].frameNumber : k \in DOMAIN group.frames})
                = Len(group.frames)
           /\ \A k \in DOMAIN group.frames :
                group.frames[k].frameNumber \in {getFrameNumber(frames[i]) : i \in DOMAIN frames}
    /\ SumSeq([g \in DOMAIN outcome.groups |-> outcome.groups[g].frameCount])
         = outcome.totalFrames
    /\ Len(outcome.representativeFramePaths) = Len(outcome.groups)

\* a result of three frames: a frame without text in a group of its own next to a
\* group of two frames
C28_Witness ==
  /\ Returned
  /\ outcome.totalFrames = 3
  /\ Len(outcome.groups) = 2
  /\ \E i \in DOMAIN frames : ~HasText(texts[i]) /\ labels[i] = -1
  /\ \E g \in DOMAIN outcome.groups : outcome.groups[g].frameCount = 2

\* the responses of the model in the order of the messages
Responses == SelectSeq(messages, LAMBDA m : m.type = "ai")

\* the tool calls of the first n responses, in order
CallsOfResponses(n) == Flatten([i \in 1..n |-> Responses[i].tool_calls])

C30_JobLifecycle ==
  \A id \in JobIds :
    /\ jobPc[id] \in {"created", "running", "read", "open"} =>
         jobFile[id] = JobJson("processing", "")
    /\ jobPc[id] = "done" =>
         jobFile[id] = (IF jobResult[id] = "returned" THEN JobJson("completed", "")
                        ELSE JobJson("failed", ErrorMessage))
    /\ jobPc[id] # "lost"
    /\ Responded(id) => jobFile[id].kind # "missing"
    /\ answer[id] # "Job not found"

====
